---- MODULE Spec2Model ----
(***************************************************************************)
(* State-machine model of teo-agent-ia: the audio transcription agent      *)
(* (backend fallback chain and post-processing), the invoice automation    *)
(* pipeline, and the Telegram server (session store, command router).      *)
(*                                                                         *)
(* Three specifications share the variables:                               *)
(*   SpecChain     one run of transcriptionAgent, one await per step       *)
(*   SpecPipeline  runs of invoiceAgent over the global page handle        *)
(*   Spec          the Telegram server: message handlers, sessions, sweep  *)
(* A text is a sequence of atoms: "/", ":", " " and words that contain     *)
(* none of these three characters.                                         *)
(***************************************************************************)
EXTENDS Integers, Sequences, FiniteSets, TLC

VARIABLES
  tr,             \* the transcriptionAgent run (SpecChain)
  inv,            \* the invoiceAgent runs, by run id (SpecPipeline)
  globalPage,     \* global.page: the page handle last created
  now,            \* Date.now(), in ticks
  nextSweep,      \* the time the setInterval sweep is next due
  audioSessions,  \* the Map audioSessions: chat id -> session
  h,              \* message handlers suspended at an await, by slot
  sent,           \* what the last step handed to the chat transport
  disk,           \* files on disk: downloaded audio, saved invoice PDF
  call            \* a function applied on its own: its argument and what it returned

vars == <<tr, inv, globalPage, now, nextSweep, audioSessions, h, sent, disk, call>>

(***************************************************************************)
(* Bounds of the model.                                                    *)
(***************************************************************************)
MaxMinutes == 7

(***************************************************************************)
(* Text helpers (String.prototype.trim / split / replace / join).          *)
(***************************************************************************)
RECURSIVE TrimLeft(_)
TrimLeft(s) == IF s # <<>> /\ Head(s) = " " THEN TrimLeft(Tail(s)) ELSE s

RECURSIVE TrimRight(_)
TrimRight(s) ==
  IF s # <<>> /\ s[Len(s)] = " " THEN TrimRight(SubSeq(s, 1, Len(s) - 1)) ELSE s

Trim(s) == TrimRight(TrimLeft(s))

Includes(s, a) == \E i \in 1..Len(s) : s[i] = a

FirstIndex(s, a) == CHOOSE i \in 1..Len(s) : s[i] = a /\ \A j \in 1..(i - 1) : s[j] # a

\* s.split(a): always at least one part; adjacent separators give empty parts
RECURSIVE Split(_, _)
Split(s, a) ==
  IF ~Includes(s, a) THEN <<s>>
  ELSE LET i == FirstIndex(s, a)
       IN  <<SubSeq(s, 1, i - 1)>> \o Split(SubSeq(s, i + 1, Len(s)), a)

\* s.replace(a, ''): removes the first occurrence only
ReplaceFirst(s, a) ==
  IF ~Includes(s, a) THEN s
  ELSE LET i == FirstIndex(s, a)
       IN  SubSeq(s, 1, i - 1) \o SubSeq(s, i + 1, Len(s))

RECURSIVE Join(_, _)
Join(parts, a) ==
  IF parts = <<>> THEN <<>>
  ELSE IF Len(parts) = 1 THEN parts[1]
  ELSE parts[1] \o <<a>> \o Join(Tail(parts), a)

StartsWith(s, a) == s # <<>> /\ s[1] = a

(***************************************************************************)
(* Audio file validation (validateAudioFile).                              *)
(***************************************************************************)
MiB == 1024 * 1024
maxSize == 25 * 1024 * 1024
supportedExtensions == {".mp3", ".wav", ".m4a", ".mp4", ".webm", ".ogg"}

ToLowerCase(ext) ==
  CASE ext = ".MP3" -> ".mp3"
    [] ext = ".OGG" -> ".ogg"
    [] ext = ".PDF" -> ".pdf"
    [] OTHER -> ext

\* a file: whether fs.stat succeeds, its extension and its size in bytes
Extensions == {".mp3", ".MP3", ".ogg", ".wav", ".pdf", ""}
Sizes == {2 * MiB, maxSize, maxSize + 1, 30 * MiB}
AudioFiles == [readable : BOOLEAN, ext : Extensions, size : Sizes]

validateAudioFileBelowLimit(file) ==
  IF ~file.readable THEN [valid |-> FALSE, error |-> "ENOENT"]
  ELSE IF ToLowerCase(file.ext) \notin supportedExtensions
       THEN [valid |-> FALSE, error |-> "Unsupported file format"]
  ELSE IF file.size >= maxSize
       THEN [valid |-> FALSE, error |-> "File too large"]
  ELSE [valid |-> TRUE, error |-> "none"]

validateAudioFile(file) ==
  IF ~file.readable THEN [valid |-> FALSE, error |-> "ENOENT"]
  ELSE IF ToLowerCase(file.ext) \notin supportedExtensions
       THEN [valid |-> FALSE, error |-> "Unsupported file format"]
  ELSE IF file.size > maxSize
       THEN [valid |-> FALSE, error |-> "File too large"]
  ELSE [valid |-> TRUE, error |-> "none"]

(***************************************************************************)
(* transcriptionAgent: the backend fallback chain and post-processing.     *)
(* A run suspends at every await; pc names the call it is suspended in.    *)
(***************************************************************************)
OutputFormats == {"text", "json", "srt", "vtt"}
TrOptions == [cleanTranscription : BOOLEAN, includeAnalysis : BOOLEAN,
              outputFormat : OutputFormats, outputPath : BOOLEAN]

NoResult == [success |-> FALSE, error |-> "none", service |-> "undefined", text |-> ""]
NoFinal == [set |-> FALSE, transcription |-> "", service |-> "undefined",
            cleaned |-> FALSE, analysis |-> FALSE]
NoError == [prefix |-> "none", reason |-> "none"]

\* entry of transcriptionAgent: validateAudioFile is awaited first
TrBegin(file, opts, openaiKey) ==
  [pc |-> "validate", file |-> file, opts |-> opts, openaiKey |-> openaiKey,
   invoked |-> <<>>, log |-> <<>>, res |-> NoResult, final |-> NoFinal,
   llmCalls |-> 0, analyzed |-> "none", written |-> FALSE, error |-> NoError]

TrThrow(r, prefix, reason) ==
  [r EXCEPT !.pc = "thrown", !.error = [prefix |-> prefix, reason |-> reason]]

\* what each backend returns
BackendOutcomes == {"text", "empty", "fail", "setup"}

transcribeWithLocalWhisper ==
  [success |-> FALSE, error |-> "Local whisper not available",
   service |-> "undefined", text |-> ""]

transcribeWithGroqWhisper(o) ==
  IF o \in {"text", "empty"}
  THEN [success |-> TRUE, error |-> "none", service |-> "groq-whisper",
        text |-> IF o = "text" THEN "raw" ELSE ""]
  ELSE [success |-> FALSE, error |-> "groq error", service |-> "groq-whisper", text |-> ""]

transcribeWithOpenAIWhisper(o) ==
  IF o \in {"text", "empty"}
  THEN [success |-> TRUE, error |-> "none", service |-> "openai-whisper",
        text |-> IF o = "text" THEN "raw" ELSE ""]
  ELSE [success |-> FALSE, error |-> "openai error", service |-> "openai-whisper", text |-> ""]

\* a backend call has completed with result res
TrCompleted(r, res) ==
  [r EXCEPT !.res = res,
            !.log = Append(@, [backend |-> r.invoked[Len(r.invoked)],
                               success |-> res.success, error |-> res.error])]

TrCall(r, backend) == [r EXCEPT !.pc = backend, !.invoked = Append(@, backend)]

\* lines 503-546: the output file is written when a path or a non-text format is given
TrToSave(r) ==
  IF r.opts.outputPath \/ r.opts.outputFormat # "text"
  THEN [r EXCEPT !.pc = "save"]
  ELSE [r EXCEPT !.pc = "returned"]

\* lines 477-481: the analysis call is issued on the cleaned text if there is one
TrToAnalyze(r) ==
  IF r.opts.includeAnalysis /\ r.res.text # ""
  THEN [r EXCEPT !.pc = "analyze", !.llmCalls = @ + 1,
                 !.analyzed = IF r.final.cleaned THEN "cleaned" ELSE "raw"]
  ELSE TrToSave(r)

\* lines 435-446: finalResult is built, the cleaning call is issued
TrToClean(r) ==
  LET f == [set |-> TRUE, transcription |-> r.res.text, service |-> r.res.service,
            cleaned |-> FALSE, analysis |-> FALSE]
      r1 == [r EXCEPT !.final = f]
  IN  IF r.opts.cleanTranscription /\ r.res.text # ""
      THEN [r1 EXCEPT !.pc = "clean", !.llmCalls = @ + 1]
      ELSE TrToAnalyze(r1)

TrCheckFailedFirstReason(r) ==
  IF ~r.res.success THEN TrThrow(r, "Transcription failed", r.log[1].error)
  ELSE TrToClean(r)

\* lines 431-433
TrCheckFailed(r) ==
  IF ~r.res.success THEN TrThrow(r, "Transcription failed", r.res.error)
  ELSE TrToClean(r)

TrCheckOpenAIAlways(r) ==
  IF r.openaiKey THEN TrCall(r, "openai") ELSE TrCheckFailed(r)

\* lines 426-429
TrCheckOpenAI(r) ==
  IF ~r.res.success /\ r.openaiKey THEN TrCall(r, "openai") ELSE TrCheckFailed(r)

\* lines 421-424
TrCheckGroq(r) ==
  IF ~r.res.success THEN TrCall(r, "groq") ELSE TrCheckOpenAI(r)

TrValidatedAnyway(r) == TrCall(r, "local")

\* lines 408-419
TrValidated(r) ==
  LET v == validateAudioFile(r.file)
  IN  IF ~v.valid THEN TrThrow(r, "File validation failed", v.error)
      ELSE TrCall(r, "local")

TrLocalDone(r) == TrCheckGroq(TrCompleted(r, transcribeWithLocalWhisper))

\* lines 312-317: the import and the client constructor are outside the try
TrGroqDone(r, o) ==
  IF o = "setup"
  THEN TrThrow(TrCompleted(r, [success |-> FALSE, error |-> "groq setup",
                               service |-> "undefined", text |-> ""]),
               "none", "groq setup")
  ELSE TrCheckOpenAI(TrCompleted(r, transcribeWithGroqWhisper(o)))

\* lines 348-353
TrOpenAIDone(r, o) ==
  IF o = "setup"
  THEN TrThrow(TrCompleted(r, [success |-> FALSE, error |-> "openai setup",
                               service |-> "undefined", text |-> ""]),
               "none", "openai setup")
  ELSE TrCheckFailed(TrCompleted(r, transcribeWithOpenAIWhisper(o)))

\* the classifier: a value, nothing usable, or a rejection
LlmOutcomes == {"ok", "none", "throw"}

\* lines 448-475
TrCleanDone(r, o) ==
  IF o = "throw" THEN TrThrow(r, "none", "cleaner rejected")
  ELSE TrToAnalyze([r EXCEPT !.final.cleaned = (o = "ok")])

\* lines 483-501
TrAnalyzeDone(r, o) ==
  IF o = "throw" THEN TrThrow(r, "none", "analyzer rejected")
  ELSE TrToSave([r EXCEPT !.final.analysis = (o = "ok")])

\* lines 504-546
TrSaveDone(r, o) ==
  IF o = "throw" THEN TrThrow(r, "none", "write failed")
  ELSE [r EXCEPT !.pc = "returned", !.written = TRUE]

TrDone(r) == r.pc \in {"returned", "thrown"}

(***************************************************************************)
(* invoiceAgent: the automation pipeline over a Playwright page.           *)
(* pc names the awaited call; ops lists the page operations issued, each   *)
(* with the page handle it was issued on.                                  *)
(***************************************************************************)
IdleInv ==
  [pc |-> "idle", id |-> 0, url |-> FALSE, dowloadFile |-> FALSE, browser |-> "none",
   page |-> 0, ops |-> <<>>, llm |-> <<>>, fills |-> <<>>,
   inputIds |-> "unset", userInputResult |-> "unset", passInputResult |-> "unset",
   buttonResult |-> "unset", buttonLoginResult |-> "unset",
   facturaResult |-> "unset", buttonFacturaResult |-> "unset",
   facturaTable |-> "unset", invoiceResult |-> "null",
   download |-> [event |-> "unset", click |-> "unset"],
   saved |-> FALSE, failed |-> FALSE, ret |-> "pending"]

\* the caller's part of invoiceAgent: chromium.launch is called and awaited
InvBegin(id, url, dowloadFile) ==
  [IdleInv EXCEPT !.pc = "launch", !.id = id, !.url = url, !.dowloadFile = dowloadFile]

InvOp(r, op) == [r EXCEPT !.ops = Append(@, [op |-> op, page |-> r.page])]
InvAsk(r, step) == [r EXCEPT !.llm = Append(@, step)]
InvTo(r, pc) == [r EXCEPT !.pc = pc]

\* lines 228-232: catch logs the error, finally awaits browser.close()
InvCatch(r) == [r EXCEPT !.pc = "closing", !.failed = TRUE, !.ret = "undefined"]

\* a return statement inside the try: finally awaits browser.close()
InvReturn(r) == [r EXCEPT !.pc = "closing", !.ret = r.invoiceResult]

\* an exception outside the try reaches the caller
InvReject(r) == [r EXCEPT !.pc = "rejected"]

CallOutcomes == {"ok", "throw"}
\* the classifier's answer: a usable field, an empty field, nothing, or a rejection
ClassifierOutcomes == {"ok", "empty", "null", "throw"}

\* line 27
InvLaunchDone(r, o) ==
  IF o = "ok" THEN [r EXCEPT !.pc = "newContext", !.browser = "open"] ELSE InvReject(r)

\* lines 28-31
InvNewContextDone(r, o) == IF o = "ok" THEN InvTo(r, "newPage") ELSE InvReject(r)

\* line 32-33: global.page is assigned and initializeBrowser returns
InvNewPageDone(r, o) == IF o = "ok" THEN InvTo(r, "enter") ELSE InvReject(r)

\* lines 65-78: invoiceAgent resumes, reads global.page, checks url, calls page.goto
InvEnter(r, gp) ==
  LET r1 == [r EXCEPT !.page = gp]
  IN  IF ~r.url THEN InvCatch(r1) ELSE InvTo(InvOp(r1, "goto"), "goto")

\* line 78-81
InvGotoDone(r, o) ==
  IF o = "ok" THEN InvTo(InvOp(r, "waitForLoadState"), "waitLoad1") ELSE InvCatch(r)

\* lines 81-84
InvWaitLoad1Done(r, o) ==
  IF o = "ok" THEN InvTo(InvOp(r, "getInputIds"), "getInputIds") ELSE InvCatch(r)

\* lines 84-92: getInputIds never throws; the analyzer is asked for the username input
InvGetInputIdsDone(r, o) ==
  InvTo(InvAsk([r EXCEPT !.inputIds = o], "username"), "resolveUser")

\* lines 94-105
InvResolveUserDoneNoIdCheck(r, o) ==
  IF o = "throw" THEN InvCatch(r)
  ELSE IF o # "null"
       THEN InvTo(InvOp([r EXCEPT !.userInputResult = o], "fillUser"), "fillUser")
       ELSE InvCatch([r EXCEPT !.userInputResult = o])

InvResolveUserDone(r, o) ==
  IF o = "throw" THEN InvCatch(r)
  ELSE IF o = "ok"
       THEN InvTo(InvOp([r EXCEPT !.userInputResult = o], "fillUser"), "fillUser")
       ELSE InvCatch([r EXCEPT !.userInputResult = o])

\* lines 96-109: insertInputValue returns a status, the analyzer is asked for the password
InvFillUserDone(r, status) ==
  InvTo(InvAsk([r EXCEPT !.fills = Append(@, status)], "password"), "resolvePass")

\* lines 111-122
InvResolvePassDone(r, o) ==
  IF o = "throw" THEN InvCatch(r)
  ELSE IF o = "ok"
       THEN InvTo(InvOp([r EXCEPT !.passInputResult = o], "fillPass"), "fillPass")
       ELSE InvCatch([r EXCEPT !.passInputResult = o])

\* lines 113-125
InvFillPassDone(r, status) ==
  InvTo(InvOp([r EXCEPT !.fills = Append(@, status)], "getButtonElements"), "getButtons")

\* lines 126-131 and 150: without buttons the login block is skipped
InvGetButtonsDone(r, success) ==
  LET r1 == [r EXCEPT !.buttonResult = IF success THEN "success" ELSE "failure"]
  IN  IF success THEN InvTo(InvAsk(r1, "login"), "resolveLogin")
      ELSE InvTo(InvOp(r1, "waitForLoadState"), "waitLoad2")

\* lines 141-147
InvResolveLoginDone(r, o) ==
  IF o = "throw" THEN InvCatch(r)
  ELSE IF o = "ok"
       THEN InvTo(InvOp([r EXCEPT !.buttonLoginResult = o], "clickLogin"), "clickLogin")
       ELSE InvCatch([r EXCEPT !.buttonLoginResult = o])

\* lines 143-150
InvClickLoginDone(r, o) ==
  IF o = "ok" THEN InvTo(InvOp(r, "waitForLoadState"), "waitLoad2") ELSE InvCatch(r)

\* lines 150-154
InvWaitLoad2Done(r, o) ==
  IF o = "ok" THEN InvTo(InvOp(r, "getAnchorElements"), "getAnchors") ELSE InvCatch(r)

\* lines 155-158 and 178: without anchors the invoice-link block is skipped
InvGetAnchorsDone(r, success) ==
  LET r1 == [r EXCEPT !.facturaResult = IF success THEN "success" ELSE "failure"]
  IN  IF success THEN InvTo(InvAsk(r1, "factura"), "resolveFactura")
      ELSE InvTo(InvOp(r1, "waitForTimeout"), "renderWait")

\* lines 168-174
InvResolveFacturaDoneTolerant(r, o) ==
  IF o = "throw" THEN InvCatch(r)
  ELSE IF o = "ok"
       THEN InvTo(InvOp([r EXCEPT !.buttonFacturaResult = o], "clickFactura"),
                  "clickFactura")
       ELSE InvTo(InvOp([r EXCEPT !.buttonFacturaResult = o], "waitForTimeout"),
                  "renderWait")

InvResolveFacturaDone(r, o) ==
  IF o = "throw" THEN InvCatch(r)
  ELSE IF o = "ok"
       THEN InvTo(InvOp([r EXCEPT !.buttonFacturaResult = o], "clickFactura"),
                  "clickFactura")
       ELSE InvCatch([r EXCEPT !.buttonFacturaResult = o])

\* lines 170-178
InvClickFacturaDone(r, o) ==
  IF o = "ok" THEN InvTo(InvOp(r, "waitForTimeout"), "renderWait") ELSE InvCatch(r)

\* lines 178-179
InvRenderWaitDone(r, o) ==
  IF o = "ok" THEN InvTo(InvOp(r, "getTable"), "getTable") ELSE InvCatch(r)

\* lines 205-226: the download block reads invoiceResult.facturaId
InvAfterTable(r) ==
  IF r.dowloadFile
  THEN IF r.invoiceResult = "null" THEN InvCatch(r)
       ELSE InvTo(InvOp(InvOp(r, "waitForEvent"), "clickDownload"), "download")
  ELSE InvReturn(r)

\* lines 181-183
InvGetTableDone(r, success) ==
  LET r1 == [r EXCEPT !.facturaTable = IF success THEN "success" ELSE "failure"]
  IN  IF success THEN InvTo(InvAsk(r1, "table"), "resolveTable") ELSE InvAfterTable(r1)

\* what the table analyzer can answer: a record, a record whose facturaId is
\* empty, nothing, or a rejection
TableOutcomes == {"record", "nofactura", "null", "throw"}

\* lines 196-203
InvResolveTableDone(r, o) ==
  IF o \in {"record", "nofactura"} THEN InvAfterTable([r EXCEPT !.invoiceResult = o])
  ELSE InvCatch(r)

InvDownloadDoneEither(r, event, click) ==
  LET r1 == [r EXCEPT !.download = [event |-> event, click |-> click]]
  IN  IF event = "ok" \/ click = "ok" THEN InvTo(InvOp(r1, "saveAs"), "saveAs")
      ELSE InvCatch(r1)

\* lines 212-218: Promise.all of the download event and the click
InvDownloadDone(r, event, click) ==
  LET r1 == [r EXCEPT !.download = [event |-> event, click |-> click]]
  IN  IF event = "ok" /\ click = "ok" THEN InvTo(InvOp(r1, "saveAs"), "saveAs")
      ELSE InvCatch(r1)

\* lines 218-222
InvSaveAsDone(r, o) ==
  IF o = "ok" THEN InvTo(InvOp([r EXCEPT !.saved = TRUE], "waitForTimeout"), "wait2s")
  ELSE InvCatch(r)

\* lines 222-223
InvWait2sDone(r, o) == IF o = "ok" THEN InvReturn(r) ELSE InvCatch(r)

\* lines 230-233: browser.close() and the return to the caller
InvClosingDone(r) == [r EXCEPT !.pc = "returned", !.browser = "closed"]

InvDone(r) == r.pc \in {"returned", "rejected"}

(***************************************************************************)
(* SpecChain: one run of transcriptionAgent.                               *)
(***************************************************************************)
Runs == {1, 2}
Chats == {"c1", "c2"}
Procs == {1, 2}

\* time is counted in minutes
SessionTTL == 5
SweepInterval == 1

NoTr == TrBegin([readable |-> FALSE, ext |-> "", size |-> 2 * MiB],
                [cleanTranscription |-> FALSE, includeAnalysis |-> FALSE,
                 outputFormat |-> "text", outputPath |-> FALSE], FALSE)

IdleHandler == [pc |-> "idle", chat |-> "none", kind |-> "none", info |-> "none"]

\* the parts of the state a specification does not use
ServerIdle ==
  /\ now = 0 /\ nextSweep = SweepInterval
  /\ audioSessions = <<>>
  /\ h = [p \in Procs |-> IdleHandler]
  /\ sent = <<>>
  /\ disk = {}

PipelineIdle == inv = [r \in Runs |-> IdleInv] /\ globalPage = 0

NoCall == [fn |-> "none"]
serverVars == <<now, nextSweep, audioSessions, h, sent, disk, call>>
pipelineVars == <<inv, globalPage>>

InitChain ==
  /\ tr \in {TrBegin(f, o, k) : f \in AudioFiles, o \in TrOptions, k \in BOOLEAN}
  /\ ServerIdle /\ PipelineIdle /\ call = NoCall

TrValidate ==
  /\ tr.pc = "validate"
  /\ tr' = TrValidated(tr)
  /\ UNCHANGED <<serverVars, pipelineVars>>

TrLocal ==
  /\ tr.pc = "local"
  /\ tr' = TrLocalDone(tr)
  /\ UNCHANGED <<serverVars, pipelineVars>>

TrGroq ==
  /\ tr.pc = "groq"
  /\ \E o \in BackendOutcomes : tr' = TrGroqDone(tr, o)
  /\ UNCHANGED <<serverVars, pipelineVars>>

TrOpenAI ==
  /\ tr.pc = "openai"
  /\ \E o \in BackendOutcomes : tr' = TrOpenAIDone(tr, o)
  /\ UNCHANGED <<serverVars, pipelineVars>>

TrClean ==
  /\ tr.pc = "clean"
  /\ \E o \in LlmOutcomes : tr' = TrCleanDone(tr, o)
  /\ UNCHANGED <<serverVars, pipelineVars>>

TrAnalyze ==
  /\ tr.pc = "analyze"
  /\ \E o \in LlmOutcomes : tr' = TrAnalyzeDone(tr, o)
  /\ UNCHANGED <<serverVars, pipelineVars>>

TrSave ==
  /\ tr.pc = "save"
  /\ \E o \in {"ok", "throw"} : tr' = TrSaveDone(tr, o)
  /\ UNCHANGED <<serverVars, pipelineVars>>

NextChain ==
  \/ TrValidate \/ TrLocal \/ TrGroq \/ TrOpenAI
  \/ TrClean \/ TrAnalyze \/ TrSave

SpecChain == InitChain /\ [][NextChain]_vars

(***************************************************************************)
(* SpecPipeline: runs of invoiceAgent (started by the CLI or by the        *)
(* getInvoice handler), interleaved at their awaits.                       *)
(***************************************************************************)
ChainIdle == tr = NoTr

InitPipeline == PipelineIdle /\ ChainIdle /\ ServerIdle /\ call = NoCall

InvSet(r, run) == inv' = [inv EXCEPT ![r] = run]

InvStart(r) ==
  /\ inv[r].pc = "idle"
  /\ \E url \in BOOLEAN, dl \in BOOLEAN : InvSet(r, InvBegin(r, url, dl))
  /\ UNCHANGED <<globalPage, tr, serverVars>>

InvLaunch(r) ==
  /\ inv[r].pc = "launch"
  /\ \E o \in CallOutcomes : InvSet(r, InvLaunchDone(inv[r], o))
  /\ UNCHANGED <<globalPage, tr, serverVars>>

InvNewContext(r) ==
  /\ inv[r].pc = "newContext"
  /\ \E o \in CallOutcomes : InvSet(r, InvNewContextDone(inv[r], o))
  /\ UNCHANGED <<globalPage, tr, serverVars>>

InvNewPage(r) ==
  /\ inv[r].pc = "newPage"
  /\ \E o \in CallOutcomes :
       /\ InvSet(r, InvNewPageDone(inv[r], o))
       /\ globalPage' = IF o = "ok" THEN r ELSE globalPage
  /\ UNCHANGED <<tr, serverVars>>

InvEnterTry(r) ==
  /\ inv[r].pc = "enter"
  /\ InvSet(r, InvEnter(inv[r], globalPage))
  /\ UNCHANGED <<globalPage, tr, serverVars>>

InvGoto(r) ==
  /\ inv[r].pc = "goto"
  /\ \E o \in CallOutcomes : InvSet(r, InvGotoDone(inv[r], o))
  /\ UNCHANGED <<globalPage, tr, serverVars>>

InvWaitLoad1(r) ==
  /\ inv[r].pc = "waitLoad1"
  /\ \E o \in CallOutcomes : InvSet(r, InvWaitLoad1Done(inv[r], o))
  /\ UNCHANGED <<globalPage, tr, serverVars>>

InvGetInputIds(r) ==
  /\ inv[r].pc = "getInputIds"
  /\ \E o \in {"ids", "empty"} : InvSet(r, InvGetInputIdsDone(inv[r], o))
  /\ UNCHANGED <<globalPage, tr, serverVars>>

InvResolveUser(r) ==
  /\ inv[r].pc = "resolveUser"
  /\ \E o \in ClassifierOutcomes : InvSet(r, InvResolveUserDone(inv[r], o))
  /\ UNCHANGED <<globalPage, tr, serverVars>>

InvFillUser(r) ==
  /\ inv[r].pc = "fillUser"
  /\ \E status \in {"success", "error"} : InvSet(r, InvFillUserDone(inv[r], status))
  /\ UNCHANGED <<globalPage, tr, serverVars>>

InvResolvePass(r) ==
  /\ inv[r].pc = "resolvePass"
  /\ \E o \in ClassifierOutcomes : InvSet(r, InvResolvePassDone(inv[r], o))
  /\ UNCHANGED <<globalPage, tr, serverVars>>

InvFillPass(r) ==
  /\ inv[r].pc = "fillPass"
  /\ \E status \in {"success", "error"} : InvSet(r, InvFillPassDone(inv[r], status))
  /\ UNCHANGED <<globalPage, tr, serverVars>>

InvGetButtons(r) ==
  /\ inv[r].pc = "getButtons"
  /\ \E success \in BOOLEAN : InvSet(r, InvGetButtonsDone(inv[r], success))
  /\ UNCHANGED <<globalPage, tr, serverVars>>

InvResolveLogin(r) ==
  /\ inv[r].pc = "resolveLogin"
  /\ \E o \in ClassifierOutcomes : InvSet(r, InvResolveLoginDone(inv[r], o))
  /\ UNCHANGED <<globalPage, tr, serverVars>>

InvClickLogin(r) ==
  /\ inv[r].pc = "clickLogin"
  /\ \E o \in CallOutcomes : InvSet(r, InvClickLoginDone(inv[r], o))
  /\ UNCHANGED <<globalPage, tr, serverVars>>

InvWaitLoad2(r) ==
  /\ inv[r].pc = "waitLoad2"
  /\ \E o \in CallOutcomes : InvSet(r, InvWaitLoad2Done(inv[r], o))
  /\ UNCHANGED <<globalPage, tr, serverVars>>

InvGetAnchors(r) ==
  /\ inv[r].pc = "getAnchors"
  /\ \E success \in BOOLEAN : InvSet(r, InvGetAnchorsDone(inv[r], success))
  /\ UNCHANGED <<globalPage, tr, serverVars>>

InvResolveFactura(r) ==
  /\ inv[r].pc = "resolveFactura"
  /\ \E o \in ClassifierOutcomes : InvSet(r, InvResolveFacturaDone(inv[r], o))
  /\ UNCHANGED <<globalPage, tr, serverVars>>

InvClickFactura(r) ==
  /\ inv[r].pc = "clickFactura"
  /\ \E o \in CallOutcomes : InvSet(r, InvClickFacturaDone(inv[r], o))
  /\ UNCHANGED <<globalPage, tr, serverVars>>

InvRenderWait(r) ==
  /\ inv[r].pc = "renderWait"
  /\ \E o \in CallOutcomes : InvSet(r, InvRenderWaitDone(inv[r], o))
  /\ UNCHANGED <<globalPage, tr, serverVars>>

InvGetTable(r) ==
  /\ inv[r].pc = "getTable"
  /\ \E success \in BOOLEAN : InvSet(r, InvGetTableDone(inv[r], success))
  /\ UNCHANGED <<globalPage, tr, serverVars>>

InvResolveTable(r) ==
  /\ inv[r].pc = "resolveTable"
  /\ \E o \in TableOutcomes : InvSet(r, InvResolveTableDone(inv[r], o))
  /\ UNCHANGED <<globalPage, tr, serverVars>>

InvDownload(r) ==
  /\ inv[r].pc = "download"
  /\ \E event \in CallOutcomes, click \in CallOutcomes :
       InvSet(r, InvDownloadDone(inv[r], event, click))
  /\ UNCHANGED <<globalPage, tr, serverVars>>

InvSaveAs(r) ==
  /\ inv[r].pc = "saveAs"
  /\ \E o \in CallOutcomes : InvSet(r, InvSaveAsDone(inv[r], o))
  /\ UNCHANGED <<globalPage, tr, serverVars>>

InvWait2s(r) ==
  /\ inv[r].pc = "wait2s"
  /\ \E o \in CallOutcomes : InvSet(r, InvWait2sDone(inv[r], o))
  /\ UNCHANGED <<globalPage, tr, serverVars>>

InvClosing(r) ==
  /\ inv[r].pc = "closing"
  /\ InvSet(r, InvClosingDone(inv[r]))
  /\ UNCHANGED <<globalPage, tr, serverVars>>

InvStep(r) ==
  \/ InvLaunch(r) \/ InvNewContext(r) \/ InvNewPage(r) \/ InvEnterTry(r)
  \/ InvGoto(r) \/ InvWaitLoad1(r) \/ InvGetInputIds(r)
  \/ InvResolveUser(r) \/ InvFillUser(r) \/ InvResolvePass(r) \/ InvFillPass(r)
  \/ InvGetButtons(r) \/ InvResolveLogin(r) \/ InvClickLogin(r) \/ InvWaitLoad2(r)
  \/ InvGetAnchors(r) \/ InvResolveFactura(r) \/ InvClickFactura(r)
  \/ InvRenderWait(r) \/ InvGetTable(r) \/ InvResolveTable(r)
  \/ InvDownload(r) \/ InvSaveAs(r) \/ InvWait2s(r) \/ InvClosing(r)

\* one run, from its call to its return
NextPipeline == InvStart(1) \/ InvStep(1)

SpecPipeline == InitPipeline /\ [][NextPipeline]_vars

\* two runs that overlap in time
NextOverlap == \E r \in Runs : InvStart(r) \/ InvStep(r)

SpecOverlap == InitPipeline /\ [][NextOverlap]_vars

\* a second run begins while the first is in flight; the second run is
\* followed through its first MaxSecondOps page operations
MaxSecondOps == 2

InvStepSecond ==
  /\ Len(inv[2].ops) < MaxSecondOps
  /\ InvStep(2)

NextOverlapStart == InvStart(1) \/ InvStep(1) \/ InvStart(2) \/ InvStepSecond

SpecOverlapStart == InitPipeline /\ [][NextOverlapStart]_vars

(***************************************************************************)
(* The Telegram server: command parsing, task handlers, the audio session  *)
(* store and its sweep. A handler runs to its first await in one step;     *)
(* a call of transcriptionAgent or invoiceAgent is one suspension, ended   *)
(* by any outcome the agent's steps above can produce.                     *)
(***************************************************************************)
MapPut(m, k, v) == [x \in (DOMAIN m) \cup {k} |-> IF x = k THEN v ELSE m[x]]
MapDelete(m, k) == [x \in (DOMAIN m) \ {k} |-> m[x]]

\* params[key] = value on the object literal {}: the key __proto__ is the
\* accessor inherited from Object.prototype, and a string assigned through it
\* is dropped, so no own property appears
ObjectSet(obj, key, value) ==
  IF key = <<"__proto__">> THEN obj ELSE MapPut(obj, key, value)

RECURSIVE ParseParams(_, _, _)
ParseParams(parts, i, params) ==
  IF i > Len(parts) THEN params
  ELSE LET param == parts[i]
       IN  IF Includes(param, ":")
           THEN LET kv == Split(param, ":")
                IN  ParseParams(parts, i + 1, ObjectSet(params, kv[1], Join(Tail(kv), ":")))
           ELSE ParseParams(parts, i + 1, params)

parseCommand(text) ==
  LET parts == Split(Trim(text), " ")
  IN  [command |-> ReplaceFirst(parts[1], "/"), params |-> ParseParams(parts, 2, <<>>)]

\* params.name is neither undefined nor the empty string
Truthy(params, name) == <<name>> \in DOMAIN params /\ params[<<name>>] # <<>>

\* taskHandlers[command]: own properties, then those of Object.prototype
OwnHandlers == {"getInvoice", "getUserInfo"}
ObjectPrototypeNames == {"constructor", "toString", "valueOf", "hasOwnProperty"}
taskHandlers(command) ==
  IF Len(command) = 1 /\ command[1] \in OwnHandlers THEN command[1]
  ELSE IF Len(command) = 1 /\ command[1] \in ObjectPrototypeNames THEN "inherited"
  ELSE "undefined"

\* the messages the model sends to the bot
NoText == <<>>
Texts ==
  { <<"/", "getUserInfo">>,
    <<"/", "getInvoice", " ", "username", ":", "alice", " ", "password", ":", "s3cr3t">>,
    <<"/", "getInvoice", " ", "username", ":", "alice">>,
    <<"/", "getInvoice", " ", "password", ":", "s3cr3t">>,
    <<"/", "getInvoice", " ", "username", ":", " ", "password", ":", "s3cr3t">>,
    <<"hello">>,
    <<"/", "foo">>,
    <<"/", "constructor">> }
\* parseCommand applied to each of these texts, computed once
ParsedTexts == [t \in Texts |-> parseCommand(t)]
AudioKinds == {"voice", "audio", "audiodoc"}
OtherKinds == {"document", "photo"}
Messages ==
  [chat : Chats, kind : {"text"}, text : Texts]
    \cup [chat : Chats, kind : AudioKinds \cup OtherKinds, text : {NoText}]

\* msg.voice || msg.audio || (msg.document with an audio/ mime type)
AudioBearing(m) == m.kind \in AudioKinds

Notice(c, tag) == [chat |-> c, tag |-> tag, detail |-> NoError]

HasSession(c) == c \in DOMAIN audioSessions /\ audioSessions[c].waitingForAudio
ExpiredAtTTL(session, t) == t - session.startTime >= SessionTTL

ExpiredTwoSweepsLate(session, t) == t - session.startTime > SessionTTL + 2 * SweepInterval
\* lines 261, 325 and 355: Date.now() - session.startTime > 5 * 60 * 1000
Expired(session, t) == t - session.startTime > SessionTTL
\* app.get('/health'): activeSessions
activeSessions == Cardinality(DOMAIN audioSessions)

\* the handler ends in this step: nothing stays suspended
Finish(sessions, msgs) ==
  /\ audioSessions' = sessions
  /\ sent' = msgs
  /\ UNCHANGED <<h, inv, disk>>

Suspend(p, pc, m, info) ==
  h' = [h EXCEPT ![p] = [pc |-> pc, chat |-> m.chat, kind |-> m.kind, info |-> info]]

ConsumeSessionAll(c) == <<>>

ConsumeSessionKeep(c) == audioSessions

\* processAudio line 139: audioSessions.delete(chatId)
ConsumeSession(c) == MapDelete(audioSessions, c)

\* processAudio lines 132-143, up to the await of the processing message
processAudio(p, m) ==
  IF ~HasSession(m.chat) THEN Finish(audioSessions, <<>>)
  ELSE /\ audioSessions' = ConsumeSession(m.chat)
       /\ sent' = <<Notice(m.chat, "processing")>>
       /\ Suspend(p, "pa_download", m, "none")
       /\ UNCHANGED <<inv, disk>>

\* taskHandlers.getUserInfo
getUserInfo(m, params) ==
  Finish(MapPut(audioSessions, m.chat,
                [waitingForAudio |-> TRUE, startTime |-> now, params |-> params]),
         <<Notice(m.chat, "send me an audio")>>)

ParamsMissingUserOnly(params) == ~Truthy(params, "username")

\* taskHandlers.getInvoice line 66
ParamsMissing(params) == ~Truthy(params, "username") \/ ~Truthy(params, "password")

\* taskHandlers.getInvoice lines 63-79: up to the await of invoiceAgent
getInvoice(p, m, params) ==
  IF ParamsMissing(params)
  THEN Finish(audioSessions, <<Notice(m.chat, "missing parameters")>>)
  ELSE /\ inv' = [inv EXCEPT ![p] = InvBegin(p, TRUE, TRUE)]
       /\ Suspend(p, "gi_agent", m, "none")
       /\ sent' = <<>>
       /\ UNCHANGED <<audioSessions, disk>>

SessionBranchNoCancel(p, m) ==
  LET c == m.chat
  IN  IF Expired(audioSessions[c], now)
      THEN Finish(MapDelete(audioSessions, c), <<Notice(c, "session expired")>>)
      ELSE IF AudioBearing(m) THEN processAudio(p, m)
      ELSE Finish(audioSessions, <<>>)

\* lines 259-284: the conversation has a session waiting for audio
SessionBranch(p, m) ==
  LET c == m.chat
  IN  IF Expired(audioSessions[c], now)
      THEN Finish(MapDelete(audioSessions, c), <<Notice(c, "session expired")>>)
      ELSE IF AudioBearing(m) THEN processAudio(p, m)
      ELSE IF m.text # NoText
           THEN Finish(MapDelete(audioSessions, c), <<Notice(c, "cancelled: text")>>)
           ELSE Finish(MapDelete(audioSessions, c), <<Notice(c, "cancelled: no audio")>>)

\* lines 286-316: no session, the command router
CommandBranch(p, m) ==
  LET c == m.chat
  IN  IF m.text = NoText \/ ~StartsWith(m.text, "/")
      THEN Finish(audioSessions, <<Notice(c, "welcome")>>)
      ELSE LET parsed == ParsedTexts[m.text]
               handler == taskHandlers(parsed.command)
           IN  CASE handler = "getInvoice" -> getInvoice(p, m, parsed.params)
                 [] handler = "getUserInfo" -> getUserInfo(m, parsed.params)
                 [] handler = "inherited" ->
                      Finish(audioSessions, <<Notice(c, "inherited property called")>>)
                 [] OTHER -> Finish(audioSessions, <<Notice(c, "unknown task")>>)

\* lines 257-316 and 351-409: the routing both entry points carry out
HandleMessage(p, m) ==
  /\ IF HasSession(m.chat) THEN SessionBranch(p, m) ELSE CommandBranch(p, m)
  /\ UNCHANGED <<now, nextSweep, tr, call, globalPage>>

\* botPolling.on('message'), run by a free handler activation
PollingMessage(p, m) ==
  /\ h[p].pc = "idle"
  /\ HandleMessage(p, m)

\* app.post('/bot<token>') with a message in the update
WebhookMessage(p, m) ==
  /\ h[p].pc = "idle"
  /\ HandleMessage(p, m)

\* the options processAudio passes to transcriptionAgent (lines 175-182)
PaOptions ==
  [cleanTranscription |-> FALSE, includeAnalysis |-> TRUE,
   outputFormat |-> "json", outputPath |-> FALSE]

\* the file a message of this kind is downloaded to (lines 148-159)
FilesFor(kind) ==
  IF kind = "voice" THEN {f \in AudioFiles : f.readable /\ f.ext = ".ogg"}
  ELSE {f \in AudioFiles : f.readable}

TrChoices ==
  [groq : BackendOutcomes, openai : BackendOutcomes,
   clean : LlmOutcomes, analyze : LlmOutcomes, save : {"ok", "throw"}]

TrStepWith(r, ch) ==
  CASE r.pc = "validate" -> TrValidated(r)
    [] r.pc = "local" -> TrLocalDone(r)
    [] r.pc = "groq" -> TrGroqDone(r, ch.groq)
    [] r.pc = "openai" -> TrOpenAIDone(r, ch.openai)
    [] r.pc = "clean" -> TrCleanDone(r, ch.clean)
    [] r.pc = "analyze" -> TrAnalyzeDone(r, ch.analyze)
    [] r.pc = "save" -> TrSaveDone(r, ch.save)

RECURSIVE TrRunToEnd(_, _)
TrRunToEnd(r, ch) == IF TrDone(r) THEN r ELSE TrRunToEnd(TrStepWith(r, ch), ch)

\* what the caller of transcriptionAgent sees of a finished run
TrSummary(r) ==
  [pc |-> r.pc, error |-> r.error, invoked |-> r.invoked, log |-> r.log,
   final |-> r.final, openaiKey |-> r.openaiKey, written |-> r.written]

TrOutcomesVoice ==
  {TrSummary(TrRunToEnd(TrBegin(f, PaOptions, k), ch)) :
     f \in FilesFor("voice"), k \in BOOLEAN, ch \in TrChoices}
TrOutcomesAudio ==
  {TrSummary(TrRunToEnd(TrBegin(f, PaOptions, k), ch)) :
     f \in FilesFor("audio"), k \in BOOLEAN, ch \in TrChoices}
TrOutcomes(kind) == IF kind = "voice" THEN TrOutcomesVoice ELSE TrOutcomesAudio

\* every way one step of a run of invoiceAgent can end
InvSuccessors(r) ==
  CASE r.pc = "launch" -> {InvLaunchDone(r, o) : o \in CallOutcomes}
    [] r.pc = "newContext" -> {InvNewContextDone(r, o) : o \in CallOutcomes}
    [] r.pc = "newPage" -> {InvNewPageDone(r, o) : o \in CallOutcomes}
    [] r.pc = "enter" -> {InvEnter(r, r.id)}
    [] r.pc = "goto" -> {InvGotoDone(r, o) : o \in CallOutcomes}
    [] r.pc = "waitLoad1" -> {InvWaitLoad1Done(r, o) : o \in CallOutcomes}
    [] r.pc = "getInputIds" -> {InvGetInputIdsDone(r, o) : o \in {"ids", "empty"}}
    [] r.pc = "resolveUser" -> {InvResolveUserDone(r, o) : o \in ClassifierOutcomes}
    [] r.pc = "fillUser" -> {InvFillUserDone(r, o) : o \in {"success", "error"}}
    [] r.pc = "resolvePass" -> {InvResolvePassDone(r, o) : o \in ClassifierOutcomes}
    [] r.pc = "fillPass" -> {InvFillPassDone(r, o) : o \in {"success", "error"}}
    [] r.pc = "getButtons" -> {InvGetButtonsDone(r, o) : o \in BOOLEAN}
    [] r.pc = "resolveLogin" -> {InvResolveLoginDone(r, o) : o \in ClassifierOutcomes}
    [] r.pc = "clickLogin" -> {InvClickLoginDone(r, o) : o \in CallOutcomes}
    [] r.pc = "waitLoad2" -> {InvWaitLoad2Done(r, o) : o \in CallOutcomes}
    [] r.pc = "getAnchors" -> {InvGetAnchorsDone(r, o) : o \in BOOLEAN}
    [] r.pc = "resolveFactura" -> {InvResolveFacturaDone(r, o) : o \in ClassifierOutcomes}
    [] r.pc = "clickFactura" -> {InvClickFacturaDone(r, o) : o \in CallOutcomes}
    [] r.pc = "renderWait" -> {InvRenderWaitDone(r, o) : o \in CallOutcomes}
    [] r.pc = "getTable" -> {InvGetTableDone(r, o) : o \in BOOLEAN}
    [] r.pc = "resolveTable" -> {InvResolveTableDone(r, o) : o \in TableOutcomes}
    [] r.pc = "download" ->
         {InvDownloadDone(r, e, c) : e \in CallOutcomes, c \in CallOutcomes}
    [] r.pc = "saveAs" -> {InvSaveAsDone(r, o) : o \in CallOutcomes}
    [] r.pc = "wait2s" -> {InvWait2sDone(r, o) : o \in CallOutcomes}
    [] r.pc = "closing" -> {InvClosingDone(r)}

\* what the caller of invoiceAgent sees of a finished run
InvSummary(r) == [pc |-> r.pc, ret |-> r.ret, saved |-> r.saved, browser |-> r.browser]

RECURSIVE InvOutcomes(_)
InvOutcomes(r) ==
  IF InvDone(r) THEN {InvSummary(r)}
  ELSE UNION {InvOutcomes(x) : x \in InvSuccessors(r)}

\* the call of taskHandlers.getInvoice: a url, dowloadFile true
InvServerOutcomes == InvOutcomes(InvBegin(0, TRUE, TRUE))

\* processAudio lines 217-225: the catch block
processAudioCatch(p, error) ==
  /\ audioSessions' = MapDelete(audioSessions, h[p].chat)
  /\ sent' = <<[chat |-> h[p].chat, tag |-> "error processing audio", detail |-> error]>>
  /\ h' = [h EXCEPT ![p] = IdleHandler]

\* processAudio lines 143-172: the processing message was sent, the file is downloaded
PaDownloadDone(p) ==
  /\ h[p].pc = "pa_download"
  /\ \E ok \in BOOLEAN :
       IF ok
       THEN /\ h' = [h EXCEPT ![p].pc = "pa_transcribe"]
            /\ disk' = disk \cup {"audio"}
            /\ sent' = <<>>
            /\ UNCHANGED audioSessions
       ELSE /\ processAudioCatch(p, [prefix |-> "none", reason |-> "Failed to download file"])
            /\ UNCHANGED disk
  /\ UNCHANGED <<now, nextSweep, tr, call, inv, globalPage>>

\* processAudio lines 175-225: transcriptionAgent returns or throws
PaTranscribeDone(p) ==
  /\ h[p].pc = "pa_transcribe"
  /\ \E out \in TrOutcomes(h[p].kind) :
       IF out.pc = "returned"
       THEN /\ disk' = disk \ {"audio"}
            /\ sent' = <<Notice(h[p].chat, "transcription complete")>>
            /\ h' = [h EXCEPT ![p] = IdleHandler]
            /\ UNCHANGED audioSessions
       ELSE /\ processAudioCatch(p, out.error)
            /\ UNCHANGED disk
  /\ UNCHANGED <<now, nextSweep, tr, call, inv, globalPage>>

\* the invoice PDF invoiceAgent saves on the desktop
PdfOf(ret) == IF ret = "record" THEN "F1.pdf" ELSE ".pdf"

\* taskHandlers.getInvoice lines 74-110: invoiceAgent is back
GiAgentDone(p) ==
  /\ h[p].pc = "gi_agent"
  /\ \E out \in InvServerOutcomes :
       LET disk1 == IF out.saved THEN disk \cup {PdfOf(out.ret)} ELSE disk
           reply(tag) ==
             /\ sent' = <<Notice(h[p].chat, tag)>>
             /\ h' = [h EXCEPT ![p] = IdleHandler]
       IN  /\ inv' = [inv EXCEPT ![p] = IdleInv]
           /\ IF out.pc = "rejected" \/ out.ret \in {"undefined", "null"}
              THEN reply("failed to retrieve invoice") /\ disk' = disk1
              ELSE IF out.ret = "nofactura"
              THEN reply("invoice retrieved") /\ disk' = disk1
              ELSE IF "F1.pdf" \in disk1
              THEN /\ h' = [h EXCEPT ![p].pc = "gi_senddoc"]
                   /\ sent' = <<>>
                   /\ disk' = disk1
              ELSE reply("invoice retrieved, file not found") /\ disk' = disk1
  /\ UNCHANGED <<now, nextSweep, tr, call, globalPage, audioSessions>>

\* taskHandlers.getInvoice lines 87-99: sendDocument is back
GiSendDocDone(p) ==
  /\ h[p].pc = "gi_senddoc"
  /\ \E ok \in BOOLEAN :
       IF ok
       THEN /\ disk' = disk \ {"F1.pdf"}
            /\ sent' = <<Notice(h[p].chat, "document"), Notice(h[p].chat, "invoice sent")>>
       ELSE /\ disk' = disk
            /\ sent' = <<Notice(h[p].chat, "invoice retrieved, file send failed")>>
  /\ h' = [h EXCEPT ![p] = IdleHandler]
  /\ UNCHANGED <<now, nextSweep, tr, call, inv, globalPage, audioSessions>>

\* lines 320-334: the periodic sweep
Sweep ==
  /\ now >= nextSweep
  /\ audioSessions' =
       [c \in {x \in DOMAIN audioSessions : ~Expired(audioSessions[x], now)}
          |-> audioSessions[c]]
  /\ nextSweep' = nextSweep + SweepInterval
  /\ sent' = <<>>
  /\ UNCHANGED <<now, h, disk, tr, call, inv, globalPage>>

\* a minute passes; a sweep that is due runs first
Tick ==
  /\ now < MaxMinutes
  /\ now < nextSweep
  /\ now' = now + 1
  /\ sent' = <<>>
  /\ UNCHANGED <<nextSweep, audioSessions, h, disk, tr, call, inv, globalPage>>

Init == ServerIdle /\ PipelineIdle /\ ChainIdle /\ call = NoCall

\* the server within one reading of the clock: any number of messages of both
\* conversations, two handler activations in flight
NextServer ==
  \/ \E p \in Procs, m \in Messages : PollingMessage(p, m) \/ WebhookMessage(p, m)
  \/ \E p \in Procs : PaDownloadDone(p) \/ PaTranscribeDone(p)
  \/ \E p \in Procs : GiAgentDone(p) \/ GiSendDocDone(p)

SpecServer == Init /\ [][NextServer]_vars

\* the server with its clock and the periodic sweep: both conversations, one
\* handler activation in flight
ClockProcs == {1}

NextClock ==
  \/ \E p \in ClockProcs, m \in Messages : PollingMessage(p, m) \/ WebhookMessage(p, m)
  \/ \E p \in ClockProcs : PaDownloadDone(p) \/ PaTranscribeDone(p)
  \/ \E p \in ClockProcs : GiAgentDone(p) \/ GiSendDocDone(p)
  \/ Sweep
  \/ Tick

SpecClock == Init /\ [][NextClock]_vars

(***************************************************************************)
(* parseCommand applied on its own to command texts '/<verb> ...'.         *)
(***************************************************************************)
MaxParamAtoms == 5
ParamAtoms == {" ", ":", "k", "v", "__proto__"}
Verbs == {"getInvoice", "foo"}
ExampleCommand ==
  <<"/", "getInvoice", " ", "username", ":", "alice", " ", "password", ":", "s3cr3t">>
CommandTexts ==
  {<<"/", v>> : v \in Verbs}
    \cup {<<"/", v, " ">> \o t :
            v \in Verbs, t \in UNION {[1..n -> ParamAtoms] : n \in 0..MaxParamAtoms}}
    \cup {ExampleCommand}

NoParsed == [command |-> <<>>, params |-> <<>>]

\* everything but call
restVars == <<tr, inv, globalPage, now, nextSweep, audioSessions, h, sent, disk>>

InitParse ==
  /\ call \in {[fn |-> "parseCommand", text |-> t, done |-> FALSE, result |-> NoParsed] :
                 t \in CommandTexts}
  /\ ServerIdle /\ PipelineIdle /\ ChainIdle

ParseCommandCall ==
  /\ call.fn = "parseCommand" /\ ~call.done
  /\ call' = [call EXCEPT !.done = TRUE, !.result = parseCommand(call.text)]
  /\ UNCHANGED restVars

NextParse == ParseCommandCall

SpecParse == InitParse /\ [][NextParse]_vars

(***************************************************************************)
(* convertToSRT and convertToVTT applied on their own to a segment list.   *)
(* A string is the sequence of its pieces: digits, punctuation, "\n", the  *)
(* arrow, a segment's text. Times are in milliseconds.                     *)
(***************************************************************************)
MaxSegments == 2
DigitChars == <<"0", "1", "2", "3", "4", "5", "6", "7", "8", "9">>

RECURSIVE Decimal(_)
\* String(n) for a natural number
Decimal(n) ==
  IF n < 10 THEN <<DigitChars[n + 1]>>
  ELSE Decimal(n \div 10) \o <<DigitChars[(n % 10) + 1]>>

RECURSIVE padStart(_, _, _)
padStart(s, width, c) == IF Len(s) >= width THEN s ELSE padStart(<<c>> \o s, width, c)

formatSRTTime(ms) ==
  LET hours == padStart(Decimal(ms \div 3600000), 2, "0")
      minutes == padStart(Decimal((ms \div 60000) % 60), 2, "0")
      secs == padStart(Decimal((ms \div 1000) % 60), 2, "0")
      millis == padStart(Decimal(ms % 1000), 3, "0")
  IN  hours \o <<":">> \o minutes \o <<":">> \o secs \o <<",">> \o millis

\* s.replace(a, b): replaces the first occurrence only
ReplaceFirstWith(s, a, b) ==
  IF ~Includes(s, a) THEN s
  ELSE LET i == FirstIndex(s, a)
       IN  SubSeq(s, 1, i - 1) \o <<b>> \o SubSeq(s, i + 1, Len(s))

formatVTTTimeKeepComma(ms) == formatSRTTime(ms)

formatVTTTime(ms) == ReplaceFirstWith(formatSRTTime(ms), ",", ".")

\* segments.map(...): one string for each segment
RECURSIVE SRTBlocks(_, _)
SRTBlocks(list, index) ==
  IF index > Len(list) THEN <<>>
  ELSE <<Decimal(index) \o <<"\n">> \o formatSRTTime(list[index].start) \o <<" --> ">>
           \o formatSRTTime(list[index].end) \o <<"\n", list[index].text, "\n">>>>
         \o SRTBlocks(list, index + 1)

\* blocks.join('\n')
RECURSIVE JoinStrings(_, _)
JoinStrings(strings, a) ==
  IF strings = <<>> THEN <<>>
  ELSE IF Len(strings) = 1 THEN strings[1]
  ELSE strings[1] \o <<a>> \o JoinStrings(Tail(strings), a)

convertToSRT(segments) ==
  IF segments.kind # "list" THEN <<"Timestamps not available">>
  ELSE JoinStrings(SRTBlocks(segments.list, 1), "\n")

RECURSIVE VTTAppend(_, _, _)
\* segments.forEach(segment => vtt += ...)
VTTAppend(vtt, list, index) ==
  IF index > Len(list) THEN vtt
  ELSE VTTAppend(vtt \o formatVTTTime(list[index].start) \o <<" --> ">>
                     \o formatVTTTime(list[index].end)
                     \o <<"\n", list[index].text, "\n", "\n">>,
                 list, index + 1)

convertToVTT(segments) ==
  IF segments.kind # "list" THEN <<"WEBVTT", "\n", "\n", "Timestamps not available">>
  ELSE VTTAppend(<<"WEBVTT", "\n", "\n">>, segments.list, 1)

\* the segment lists given: null, undefined, and lists of up to MaxSegments segments
SegmentTimes == {0, 3723004, 90061001}
Segments == [start : SegmentTimes, end : SegmentTimes, text : {"hola", "que tal"}]
SegmentLists ==
  {[kind |-> k, list |-> <<>>] : k \in {"null", "undefined"}}
    \cup {[kind |-> "list", list |-> l] :
            l \in UNION {[1..n -> Segments] : n \in 0..MaxSegments}}

InitSubtitles ==
  /\ call \in {[fn |-> "convert", segments |-> s, srtDone |-> FALSE, srt |-> <<>>,
                vttDone |-> FALSE, vtt |-> <<>>] : s \in SegmentLists}
  /\ ServerIdle /\ PipelineIdle /\ ChainIdle

ConvertToSRTCall ==
  /\ call.fn = "convert" /\ ~call.srtDone
  /\ call' = [call EXCEPT !.srtDone = TRUE, !.srt = convertToSRT(call.segments)]
  /\ UNCHANGED restVars

ConvertToVTTCall ==
  /\ call.fn = "convert" /\ ~call.vttDone
  /\ call' = [call EXCEPT !.vttDone = TRUE, !.vtt = convertToVTT(call.segments)]
  /\ UNCHANGED restVars

NextSubtitles == ConvertToSRTCall \/ ConvertToVTTCall

SpecSubtitles == InitSubtitles /\ [][NextSubtitles]_vars

(***************************************************************************)
(* The console lines of the server while one /getInvoice command is        *)
(* received, parsed, dispatched and executed, for two runs side by side    *)
(* that get the same command except for the password value and meet the    *)
(* same outcomes. A line is the sequence of its pieces.                    *)
(***************************************************************************)
Passwords == {"s3cr3t", "hunter2"}
Usernames == {<<"alice">>, <<>>}
EntryPoints == {"polling", "webhook"}

GetInvoiceText(username, password) ==
  <<"/", "getInvoice", " ", "username", ":">> \o username \o <<" ", "password", ":", password>>

\* lines 250-255 and 344-349: the text of the message is part of the line
ReceivedLine(entry, chat, text) ==
  <<IF entry = "polling" THEN "Received message from chat" ELSE "Webhook received from chat",
    chat, "text:">> \o text \o <<"hasVoice:", "false", "hasAudio:", "false",
                                 "hasDocument:", "false">>

\* line 73
GettingInvoiceLine(params) == <<"Getting invoice for user:">> \o params[<<"username">>]

\* lines 81-108: what the handler writes once invoiceAgent is back
AgentBackLines(out) ==
  IF out.pc = "rejected" THEN <<<<"Error getting invoice:", "rejected">>>>
  ELSE IF out.ret \in {"undefined", "null"}
  THEN <<<<out.ret>>, <<"Error getting invoice:", "TypeError">>>>
  ELSE <<<<out.ret>>>>

\* lines 84-99: the file is looked up and sent
ReachesSendDocument(out) ==
  out.pc # "rejected" /\ out.ret = "record" /\ out.saved

SendDocumentLine(ok) ==
  IF ok THEN <<"File sent and deleted:", "F1.pdf">> ELSE <<"Error sending file:", "fileError">>

RunsCompared == {1, 2}

InitLogs ==
  /\ call \in {[fn |-> "getInvoice", entry |-> e, chat |-> c, pc |-> "received",
                text |-> [i \in RunsCompared |-> GetInvoiceText(u, pw[i])],
                password |-> pw, out |-> "none",
                lines |-> [i \in RunsCompared |-> <<>>]] :
                e \in EntryPoints, c \in Chats, u \in Usernames,
                pw \in [RunsCompared -> Passwords]}
  /\ ServerIdle /\ PipelineIdle /\ ChainIdle

LogTo(pc, added) ==
  call' = [call EXCEPT !.pc = pc,
                       !.lines = [i \in RunsCompared |-> call.lines[i] \o added[i]]]

\* the entry point logs the message
LogReceived ==
  /\ call.fn = "getInvoice" /\ call.pc = "received"
  /\ LogTo("parse", [i \in RunsCompared |->
                       <<ReceivedLine(call.entry, call.chat, call.text[i])>>])
  /\ UNCHANGED restVars

\* parseCommand, taskHandlers[command] and getInvoice up to the call of invoiceAgent
LogDispatched ==
  /\ call.fn = "getInvoice" /\ call.pc = "parse"
  /\ LET params == [i \in RunsCompared |-> parseCommand(call.text[i]).params]
     IN  IF ParamsMissing(params[1])
         THEN LogTo("done", [i \in RunsCompared |-> <<>>])
         ELSE LogTo("agent", [i \in RunsCompared |-> <<GettingInvoiceLine(params[i])>>])
  /\ UNCHANGED restVars

\* invoiceAgent is back
LogAgentBack ==
  /\ call.fn = "getInvoice" /\ call.pc = "agent"
  /\ \E out \in InvServerOutcomes :
       LogTo(IF ReachesSendDocument(out) THEN "sendDocument" ELSE "done",
             [i \in RunsCompared |-> AgentBackLines(out)])
  /\ UNCHANGED restVars

\* sendDocument is back
LogDocumentSent ==
  /\ call.fn = "getInvoice" /\ call.pc = "sendDocument"
  /\ \E ok \in BOOLEAN : LogTo("done", [i \in RunsCompared |-> <<SendDocumentLine(ok)>>])
  /\ UNCHANGED restVars

NextLogs == LogReceived \/ LogDispatched \/ LogAgentBack \/ LogDocumentSent

SpecLogs == InitLogs /\ [][NextLogs]_vars

(***************************************************************************)
(* The server with its clock under fairness: the interval timer keeps      *)
(* firing and time keeps advancing. /getUserInfo arrives only while the    *)
(* clock can still run past the expiry of the session it arms.             *)
(***************************************************************************)
ArmUntil == MaxMinutes - SessionTTL - SweepInterval

MessagesAt(t) ==
  IF t <= ArmUntil THEN Messages
  ELSE {m \in Messages : m.text # <<"/", "getUserInfo">>}

NextLive ==
  \/ \E p \in ClockProcs, m \in MessagesAt(now) : PollingMessage(p, m) \/ WebhookMessage(p, m)
  \/ \E p \in ClockProcs : PaDownloadDone(p) \/ PaTranscribeDone(p)
  \/ \E p \in ClockProcs : GiAgentDone(p) \/ GiSendDocDone(p)
  \/ Sweep
  \/ Tick

SpecLive == Init /\ [][NextLive]_vars /\ WF_vars(Sweep) /\ WF_vars(Tick)

(***************************************************************************)
(* C1: in a run whose input passes validation the backends are called one  *)
(* at a time in the order local, groq, openai (openai only with its key),  *)
(* each at most once; no backend is called after one that succeeded; and   *)
(* once the chain is over with a success, the result's service is the      *)
(* service of that last backend.                                           *)
(***************************************************************************)
ChainOrder == <<"local", "groq", "openai">>
ServiceOf(backend) ==
  CASE backend = "groq" -> "groq-whisper"
    [] backend = "openai" -> "openai-whisper"
    [] OTHER -> "undefined"
InChain(r) == r.pc \in {"local", "groq", "openai"}

C1_ChainOrder ==
  /\ Len(tr.invoked) <= 3
  /\ tr.invoked = SubSeq(ChainOrder, 1, Len(tr.invoked))
  /\ (\E i \in 1..Len(tr.invoked) : tr.invoked[i] = "openai") => tr.openaiKey
  /\ tr.invoked # <<>> => validateAudioFile(tr.file).valid
  \* one at a time: the calls made are the calls completed, plus the one in flight
  /\ Len(tr.invoked) = Len(tr.log) + (IF InChain(tr) THEN 1 ELSE 0)
  /\ \A i \in 1..Len(tr.log) :
       /\ tr.log[i].backend = tr.invoked[i]
       /\ tr.log[i].success => i = Len(tr.invoked)
  /\ tr.final.set =>
       /\ tr.log # <<>> /\ tr.log[Len(tr.log)].success
       /\ tr.final.service = ServiceOf(tr.invoked[Len(tr.invoked)])
  /\ tr.pc = "returned" => tr.final.set

\* a run that fell back from local and groq to openai, which succeeded
C1_Witness ==
  /\ tr.pc = "returned"
  /\ tr.invoked = <<"local", "groq", "openai">>
  /\ tr.final.service = "openai-whisper"

MessagesOf == [c \in Chats |-> {m \in Messages : m.chat = c}]
AudioOf == [c \in Chats |-> {m \in MessagesOf[c] : AudioBearing(m)}]
OtherOf == [c \in Chats |-> {m \in MessagesOf[c] : ~AudioBearing(m)}]

\* what every step has in which a free handler activation p takes a message of
\* conversation c, from either entry point: the clock stands still and what is
\* sent, if anything, goes to c
TakesMessageOf(p, c) ==
  /\ h[p].pc = "idle"
  /\ now' = now /\ nextSweep' = nextSweep
  /\ sent' = <<>> \/ sent'[1].chat = c

\* every configured backend was attempted in this run and none succeeded
ChainExhausted(out) ==
  /\ Len(out.invoked) = (IF out.openaiKey THEN 3 ELSE 2)
  /\ Len(out.log) = Len(out.invoked)
  /\ \A i \in 1..Len(out.log) : ~out.log[i].success

(***************************************************************************)
(* C2: a run of transcriptionAgent in which every configured backend was   *)
(* attempted and failed ends thrown, and the reason it throws is the       *)
(* failure reason of the last backend attempted; when processAudio gets    *)
(* transcriptionAgent back it hands the transport exactly one message for  *)
(* the conversation, and when the agent threw that message is the error    *)
(* message built from the thrown error.                                    *)
(***************************************************************************)
C2_ChainExhaustionReported ==
  [][\A p \in Procs :
       h[p].pc = "pa_transcribe" /\ h'[p].pc # "pa_transcribe" =>
         /\ \A out \in TrOutcomes(h[p].kind) :
              ChainExhausted(out) =>
                /\ out.pc = "thrown"
                /\ out.error.reason = out.log[Len(out.log)].error
         /\ Len(sent') = 1
         /\ sent'[1].chat = h[p].chat
         /\ \/ /\ sent'[1].tag = "transcription complete"
               /\ \E out \in TrOutcomes(h[p].kind) : out.pc = "returned"
            \/ /\ sent'[1].tag = "error processing audio"
               /\ \E out \in TrOutcomes(h[p].kind) :
                    out.pc = "thrown" /\ sent'[1].detail = out.error
         /\ h'[p] = IdleHandler]_vars

\* local, groq and openai all failed; the one message sent carries openai's reason
C2_Witness ==
  /\ \E out \in TrOutcomesVoice :
       /\ ChainExhausted(out) /\ out.openaiKey
       /\ sent = <<[chat |-> "c1", tag |-> "error processing audio", detail |-> out.error]>>
       /\ out.error = [prefix |-> "Transcription failed", reason |-> "openai error"]
  /\ \A p \in Procs : h[p].pc = "idle"

C3_UsableAtTTL ==
  \E c \in DOMAIN audioSessions :
    /\ now - audioSessions[c].startTime = SessionTTL
    /\ HasSession(c) /\ ~Expired(audioSessions[c], now)

(***************************************************************************)
(* C4: an audio-bearing message that finds an unexpired session of its     *)
(* conversation deletes the session and starts one transcription, in the   *)
(* activation that took the message and in no other; an audio-bearing      *)
(* message that finds no session starts nothing and gets the reply of the  *)
(* ordinary command path.                                                  *)
(***************************************************************************)
C4_AudioConsumesSessionOnce ==
  [][\A p \in Procs, c \in Chats :
       TakesMessageOf(p, c) =>
         \A m \in AudioOf[c] :
           HandleMessage(p, m) =>
             IF HasSession(c)
             THEN now - audioSessions[c].startTime <= SessionTTL =>
                    /\ c \notin DOMAIN audioSessions'
                    /\ h'[p].pc = "pa_download" /\ h'[p].chat = c
                    /\ \A q \in Procs \ {p} : h'[q] = h[q]
                    /\ sent' = <<Notice(c, "processing")>>
             ELSE /\ h' = h
                  /\ audioSessions' = audioSessions
                  /\ sent' = <<Notice(c, "welcome")>>]_vars

\* the first audio message is being transcribed, the session is gone, and a
\* message for the same conversation has just been answered by the command path
C4_Witness ==
  \E p \in Procs :
    /\ h[p].pc \in {"pa_download", "pa_transcribe"}
    /\ h[p].chat \notin DOMAIN audioSessions
    /\ sent = <<Notice(h[p].chat, "welcome")>>
    /\ \A q \in Procs \ {p} : h[q].pc = "idle"

(***************************************************************************)
(* C5: a message that is not audio-bearing and finds an unexpired session  *)
(* of its conversation deletes that session and sends exactly one          *)
(* cancellation notice; it starts no transcription and no command handler: *)
(* no activation is suspended, no pipeline run begins, no session is armed *)
(* and nothing else is sent.                                               *)
(***************************************************************************)
C5_NonAudioCancels ==
  [][\A p \in ClockProcs, c \in Chats :
       /\ HasSession(c)
       /\ now - audioSessions[c].startTime <= SessionTTL
       /\ TakesMessageOf(p, c)
       => \A m \in OtherOf[c] :
            HandleMessage(p, m) =>
              /\ c \notin DOMAIN audioSessions'
              /\ \A d \in DOMAIN audioSessions \ {c} :
                   d \in DOMAIN audioSessions' /\ audioSessions'[d] = audioSessions[d]
              /\ DOMAIN audioSessions' \subseteq DOMAIN audioSessions
              /\ Len(sent') = 1
              /\ sent'[1].chat = c
              /\ sent'[1].tag \in {"cancelled: text", "cancelled: no audio"}
              /\ h' = h /\ inv' = inv /\ disk' = disk]_vars

\* a session that had waited for some minutes was cancelled by a text
C5_Witness ==
  /\ now > 0
  /\ sent = <<Notice("c1", "cancelled: text")>>
  /\ "c1" \notin DOMAIN audioSessions
  /\ h[1].pc = "idle"

(***************************************************************************)
(* C6: every invocation of invoiceAgent that has launched a browser has    *)
(* closed it when control is back with the caller, whichever step failed.  *)
(* Fails: an exception of browser.newContext() or context.newPage() leaves *)
(* initializeBrowser before the try/finally is entered.                    *)
(***************************************************************************)
C6_BrowserClosedOnReturn ==
  \A r \in Runs : InvDone(inv[r]) => inv[r].browser # "open"

(***************************************************************************)
(* C7: when the classifier gives no element id for the username field, or  *)
(* none for the password field, the run fails: the fill of that field and  *)
(* every later step (login click, invoice-link click, table extraction,    *)
(* download) are not issued and no invoice record is returned.             *)
(***************************************************************************)
IssuedOps(r) == {inv[r].ops[i].op : i \in 1..Len(inv[r].ops)}
LaterOps == {"getButtonElements", "clickLogin", "getAnchorElements", "clickFactura",
             "getTable", "waitForEvent", "clickDownload", "saveAs"}

EndsFailed(r) ==
  /\ inv[r].failed /\ inv[r].pc \in {"closing", "returned"}
  /\ inv[r].ret = "undefined" /\ ~inv[r].saved

C7_MissingCredentialFieldFatal ==
  \A r \in Runs :
    /\ inv[r].userInputResult \in {"empty", "null"}
       => /\ EndsFailed(r)
          /\ IssuedOps(r) \cap ({"fillUser", "fillPass"} \cup LaterOps) = {}
    /\ inv[r].passInputResult \in {"empty", "null"}
       => /\ EndsFailed(r)
          /\ IssuedOps(r) \cap ({"fillPass"} \cup LaterOps) = {}

\* the classifier found the username field but not the password field
C7_Witness ==
  /\ inv[1].pc = "returned" /\ inv[1].failed /\ inv[1].ret = "undefined"
  /\ inv[1].userInputResult = "ok" /\ inv[1].passInputResult = "empty"
  /\ "fillUser" \in IssuedOps(1) /\ "fillPass" \notin IssuedOps(1)

(***************************************************************************)
(* C8: when no login control is resolved, because the buttons cannot be    *)
(* gathered or because the classifier gives no button text, the run ends   *)
(* failed and issues neither the post-login load, nor the invoice-link     *)
(* resolution, nor the table extraction.                                   *)
(* Fails: when getButtonElements reports failure the login block is        *)
(* skipped and the run goes on to the post-login load.                     *)
(***************************************************************************)
AfterLoginOps == {"getAnchorElements", "clickFactura", "getTable"}
PostLoginLoadIssued(r) ==
  \E i \in 1..Len(inv[r].ops) :
    /\ inv[r].ops[i].op = "waitForLoadState"
    /\ \E j \in 1..(i - 1) : inv[r].ops[j].op = "getButtonElements"

C8_NoLoginControlFatal ==
  \A r \in Runs :
    (inv[r].buttonResult = "failure" \/ inv[r].buttonLoginResult \in {"empty", "null"})
    => /\ EndsFailed(r)
       /\ ~PostLoginLoadIssued(r)
       /\ IssuedOps(r) \cap AfterLoginOps = {}

C9_DegradedRecord ==
  /\ inv[1].pc = "returned" /\ inv[1].facturaResult = "failure"
  /\ inv[1].ret = "record" /\ ~inv[1].failed

\* the parameter is absent from the command, or present with nothing after its colon
Lacks(params, name) == <<name>> \notin DOMAIN params \/ params[<<name>>] = <<>>

\* the getInvoice commands that lack username or password, or carry it empty
IncompleteGetInvoice ==
  {m \in Messages :
     /\ m.text # NoText /\ StartsWith(m.text, "/")
     /\ ParsedTexts[m.text].command = <<"getInvoice">>
     /\ \/ Lacks(ParsedTexts[m.text].params, "username")
        \/ Lacks(ParsedTexts[m.text].params, "password")}

UnregisteredCommands ==
  {m \in Messages :
     /\ m.text # NoText /\ StartsWith(m.text, "/")
     /\ ParsedTexts[m.text].command \notin {<<v>> : v \in OwnHandlers}}

(***************************************************************************)
(* C11: a command text starting with '/' whose verb is not a registered    *)
(* task handler, taken while its conversation has no session, invokes no   *)
(* function and gets the unknown-command message as its only reply; this   *)
(* includes verbs that name a property every object inherits.              *)
(***************************************************************************)
C11_UnknownVerbRejected ==
  [][\A p \in Procs, m \in UnregisteredCommands :
       ~HasSession(m.chat) /\ TakesMessageOf(p, m.chat) /\ HandleMessage(p, m)
       => /\ sent' = <<Notice(m.chat, "unknown task")>>
          /\ h' = h /\ inv' = inv /\ audioSessions' = audioSessions]_vars

\* the extensions the claim accepts, in any letter case
AcceptedExtensions ==
  {".mp3", ".MP3", ".wav", ".WAV", ".m4a", ".M4A", ".mp4", ".MP4",
   ".webm", ".WEBM", ".ogg", ".OGG"}
AcceptedAsStated(f) ==
  f.readable /\ f.ext \in AcceptedExtensions /\ f.size <= 26214400

(***************************************************************************)
(* C13: validateAudioFile answers valid exactly for a file that can be     *)
(* read, whose extension in any letter case is one of .mp3 .wav .m4a .mp4  *)
(* .webm .ogg and whose size is at most 26,214,400 bytes; otherwise it     *)
(* returns an invalid result with a reason; it never raises, so the only   *)
(* failure transcriptionAgent reports from it is the one it throws itself  *)
(* for an invalid result.                                                  *)
(***************************************************************************)
C13_ValidateAudioFile ==
  LET v == validateAudioFile(tr.file)
  IN  /\ v.valid <=> AcceptedAsStated(tr.file)
      /\ ~v.valid => v.error \in {"ENOENT", "Unsupported file format", "File too large"}
      /\ v.valid => v.error = "none"
      /\ tr.pc # "validate" =>
           /\ AcceptedAsStated(tr.file) => tr.invoked # <<>>
           /\ ~AcceptedAsStated(tr.file) =>
                /\ tr.pc = "thrown"
                /\ tr.error = [prefix |-> "File validation failed", reason |-> v.error]

\* the 2 MiB .mp3 file was accepted: the first backend is being called
C13_Witness ==
  /\ tr.file = [readable |-> TRUE, ext |-> ".mp3", size |-> 2 * 1024 * 1024]
  /\ tr.pc = "local"

\* the 30 MiB file and the .pdf file were rejected
C13_RejectsLarge ==
  /\ tr.file = [readable |-> TRUE, ext |-> ".mp3", size |-> 30 * 1024 * 1024]
  /\ tr.pc = "thrown" /\ tr.error.reason = "File too large"
C13_RejectsPdf ==
  /\ tr.file = [readable |-> TRUE, ext |-> ".pdf", size |-> 2 * 1024 * 1024]
  /\ tr.pc = "thrown" /\ tr.error.reason = "Unsupported file format"

(***************************************************************************)
(* C14: when validation rejects the audio file, for its extension, its     *)
(* size or because it cannot be read, transcriptionAgent ends thrown and   *)
(* has called no transcription backend, made no classifier call and        *)
(* written no output file.                                                 *)
(***************************************************************************)
C14_RejectedBeforeAnyCall ==
  (~validateAudioFile(tr.file).valid /\ tr.pc # "validate") =>
    /\ tr.pc = "thrown"
    /\ tr.error.prefix = "File validation failed"
    /\ tr.invoked = <<>> /\ tr.log = <<>>
    /\ tr.llmCalls = 0 /\ tr.analyzed = "none"
    /\ ~tr.written /\ ~tr.final.set

\* an unreadable file, with cleaning, analysis and an output path requested
C14_Witness ==
  /\ ~tr.file.readable
  /\ tr.opts.cleanTranscription /\ tr.opts.includeAnalysis /\ tr.opts.outputPath
  /\ tr.pc = "thrown" /\ tr.error.reason = "ENOENT"

(***************************************************************************)
(* C15: with the cleaning stage disabled no cleaned text appears and the   *)
(* analysis is never given one; and when the cleaning call is made and     *)
(* fails or returns no cleaned text the run does not fail: it goes on, the *)
(* result carries no cleaned text and the analysis, if enabled, is given   *)
(* the raw text.                                                           *)
(***************************************************************************)
C15_CleaningFailureTolerated ==
  /\ [](~tr.opts.cleanTranscription => ~tr.final.cleaned /\ tr.analyzed # "cleaned")
  /\ [][tr.pc = "clean" =>
          /\ tr'.pc # "thrown"
          /\ (~tr'.final.cleaned =>
                (/\ tr'.analyzed # "cleaned"
                 /\ (tr.opts.includeAnalysis =>
                       tr'.pc = "analyze" /\ tr'.analyzed = "raw")))]_vars

\* what does hold: an answer without cleaned text is tolerated, a rejected call is not
C15_EmptyCleaningTolerated ==
  /\ [](~tr.opts.cleanTranscription => ~tr.final.cleaned /\ tr.analyzed # "cleaned")
  /\ [][tr.pc = "clean" /\ tr'.pc # "thrown" =>
          (~tr'.final.cleaned =>
            (/\ tr'.analyzed # "cleaned"
             /\ (tr.opts.includeAnalysis =>
                   tr'.pc = "analyze" /\ tr'.analyzed = "raw")))]_vars

(***************************************************************************)
(* C16: when the analysis call is made and fails the run does not fail: it *)
(* goes on with the transcription, the service and the cleaned text it had *)
(* and without an analysis.                                                *)
(***************************************************************************)
C16_AnalysisFailureTolerated ==
  [][tr.pc = "analyze" =>
       /\ tr'.pc # "thrown"
       /\ tr'.final.transcription = tr.final.transcription
       /\ tr'.final.service = tr.final.service
       /\ tr'.final.cleaned = tr.final.cleaned]_vars

\* what does hold: an analysis call that resolves to nothing is tolerated
C16_EmptyAnalysisTolerated ==
  [][tr.pc = "analyze" /\ tr'.pc # "thrown" =>
       /\ tr'.pc \in {"save", "returned"}
       /\ tr'.final.transcription = tr.final.transcription
       /\ tr'.final.service = tr.final.service
       /\ tr'.final.cleaned = tr.final.cleaned]_vars

\* a run that returned without an analysis although one was asked for
C16_ReturnedWithoutAnalysis ==
  /\ tr.pc = "returned" /\ tr.opts.includeAnalysis /\ tr.analyzed # "none"
  /\ ~tr.final.analysis

\* the tokens of a command text: the maximal runs without a space after the verb
TokenSpans(t) ==
  {<<i, j>> \in (3..Len(t)) \X (3..Len(t)) :
     /\ i <= j
     /\ \A k \in i..j : t[k] # " "
     /\ t[i - 1] = " "
     /\ j = Len(t) \/ t[j + 1] = " "}
ColonSpans(t) == {sp \in TokenSpans(t) : \E k \in sp[1]..sp[2] : t[k] = ":"}
FirstColon(t, sp) ==
  CHOOSE k \in sp[1]..sp[2] : t[k] = ":" /\ \A l \in sp[1]..(k - 1) : t[l] # ":"
KeyOf(t, sp) == SubSeq(t, sp[1], FirstColon(t, sp) - 1)
ValueOf(t, sp) == SubSeq(t, FirstColon(t, sp) + 1, sp[2])

(***************************************************************************)
(* C12: for a text '/<verb> token token ...' parseCommand returns the verb *)
(* without its slash as command, and params holding one key for each token *)
(* that has a colon: the text before the token's first colon, mapped to    *)
(* all the text after that colon (of the last such token when a key comes  *)
(* twice); tokens without a colon contribute nothing.                      *)
(***************************************************************************)
ParsedAsStated(t, result, spans) ==
  /\ result.command = <<t[2]>>
  /\ DOMAIN result.params = {KeyOf(t, sp) : sp \in spans}
  /\ \A sp \in spans :
       (\A later \in spans : later[1] > sp[1] => KeyOf(t, later) # KeyOf(t, sp))
       => result.params[KeyOf(t, sp)] = ValueOf(t, sp)

C12_ParseCommand ==
  (call.fn = "parseCommand" /\ call.done) =>
    ParsedAsStated(call.text, call.result, ColonSpans(call.text))

\* what does hold: the same for the tokens whose key is not __proto__
C12_ParseCommandOtherKeys ==
  (call.fn = "parseCommand" /\ call.done) =>
    ParsedAsStated(call.text, call.result,
                   {sp \in ColonSpans(call.text) : KeyOf(call.text, sp) # <<"__proto__">>})

\* the example of the specification, parsed
C12_Witness ==
  /\ call.fn = "parseCommand" /\ call.done
  /\ call.text = ExampleCommand
  /\ call.result =
       [command |-> <<"getInvoice">>,
        params |-> (<<"username">> :> <<"alice">> @@ <<"password">> :> <<"s3cr3t">>)]

\* a value that keeps its later colons
C12_LaterColonsKept ==
  /\ call.fn = "parseCommand" /\ call.done
  /\ call.text = <<"/", "foo", " ", "k", ":", "v", ":", "v">>
  /\ call.result.params = (<<"k">> :> <<"v", ":", "v">>)

\* the timed blocks of an output: one for each arrow in it
TimedBlocks(out) == {i \in 1..Len(out) : out[i] = " --> "}

(***************************************************************************)
(* C17: for a segment list that is null, undefined or empty, convertToSRT  *)
(* returns the placeholder text, convertToVTT returns the WEBVTT header    *)
(* followed by the placeholder text, and neither output has a timed block. *)
(***************************************************************************)
C17_PlaceholderWhenNoSegments ==
  (call.fn = "convert" /\ call.segments.list = <<>>) =>
    /\ call.srtDone =>
         /\ call.srt = <<"Timestamps not available">>
         /\ TimedBlocks(call.srt) = {}
    /\ call.vttDone =>
         /\ call.vtt = <<"WEBVTT", "\n", "\n", "Timestamps not available">>
         /\ TimedBlocks(call.vtt) = {}

\* what does hold: the placeholder for null and undefined; for the empty
\* list an empty SRT text and a bare VTT header
C17_PlaceholderWhenAbsent ==
  (call.fn = "convert" /\ call.segments.list = <<>>) =>
    /\ call.srtDone =>
         call.srt = IF call.segments.kind = "list" THEN <<>>
                    ELSE <<"Timestamps not available">>
    /\ call.vttDone =>
         call.vtt = IF call.segments.kind = "list" THEN <<"WEBVTT", "\n", "\n">>
                    ELSE <<"WEBVTT", "\n", "\n", "Timestamps not available">>

\* the lines of an output: the pieces between consecutive "\n"
LinesOf(out) == Split(out, "\n")

\* the two times of a timing line
StartOf(line) == SubSeq(line, 1, FirstIndex(line, " --> ") - 1)
EndOf(line) == SubSeq(line, FirstIndex(line, " --> ") + 1, Len(line))

\* t with every comma turned into a period
CommasToPeriods(t) == [i \in 1..Len(t) |-> IF t[i] = "," THEN "." ELSE t[i]]

(***************************************************************************)
(* C18: for a non-empty segment list both converters emit one block for    *)
(* each segment, in the list's order, with the segment's text unchanged;   *)
(* the SRT blocks are numbered 1, 2, ... and every VTT time is the SRT     *)
(* time of the same segment with its comma replaced by a period.           *)
(***************************************************************************)
C18_OneBlockPerSegment ==
  (call.fn = "convert" /\ call.segments.list # <<>> /\ call.srtDone /\ call.vttDone) =>
    LET n == Len(call.segments.list)
        srt == LinesOf(call.srt)
        vtt == LinesOf(call.vtt)
    IN  /\ Cardinality(TimedBlocks(call.srt)) = n
        /\ Cardinality(TimedBlocks(call.vtt)) = n
        /\ Len(srt) = 4 * n
        /\ Len(vtt) = 3 * n + 3
        /\ vtt[1] = <<"WEBVTT">>
        /\ \A i \in 1..n :
             /\ srt[4 * i - 3] = <<DigitChars[i + 1]>>
             /\ Includes(srt[4 * i - 2], " --> ")
             /\ Includes(vtt[3 * i], " --> ")
             /\ srt[4 * i - 1] = <<call.segments.list[i].text>>
             /\ vtt[3 * i + 1] = <<call.segments.list[i].text>>
             /\ Includes(StartOf(srt[4 * i - 2]), ",")
             /\ Includes(EndOf(srt[4 * i - 2]), ",")
             /\ StartOf(vtt[3 * i]) = CommasToPeriods(StartOf(srt[4 * i - 2]))
             /\ EndOf(vtt[3 * i]) = CommasToPeriods(EndOf(srt[4 * i - 2]))

\* both outputs of a list of MaxSegments segments with distinct texts, the
\* second starting after an hour
C18_Witness ==
  /\ call.fn = "convert" /\ call.srtDone /\ call.vttDone
  /\ Len(call.segments.list) = MaxSegments
  /\ call.segments.list[1].text # call.segments.list[2].text
  /\ call.segments.list[2].start = 3723004
  /\ StartOf(LinesOf(call.vtt)[6]) = <<"0", "1", ":", "0", "2", ":", "0", "3", ".", "0", "0", "4">>

(***************************************************************************)
(* C19: a classifier answer without the field its step needs is never      *)
(* acted on. Without elementId there is no fill of that input, without     *)
(* buttonText no click of the login control or of the invoice link, and    *)
(* an invoice record without facturaId neither starts a download nor is    *)
(* returned: in each case the run ends as it does when there is no answer. *)
(* Fails: the table step tests only that the record is not null.           *)
(***************************************************************************)
C19_IncompleteAnswerNotUsed ==
  \A r \in Runs :
    /\ inv[r].userInputResult = "empty"
       => EndsFailed(r) /\ "fillUser" \notin IssuedOps(r)
    /\ inv[r].passInputResult = "empty"
       => EndsFailed(r) /\ "fillPass" \notin IssuedOps(r)
    /\ inv[r].buttonLoginResult = "empty"
       => EndsFailed(r) /\ "clickLogin" \notin IssuedOps(r)
    /\ inv[r].buttonFacturaResult = "empty"
       => EndsFailed(r) /\ "clickFactura" \notin IssuedOps(r)
    /\ inv[r].invoiceResult = "nofactura"
       => /\ IssuedOps(r) \cap {"waitForEvent", "clickDownload", "saveAs"} = {}
          /\ inv[r].ret # "nofactura"
          /\ ~inv[r].saved

\* what does hold: the four steps that read one field of the answer
C19_FieldTestedSteps ==
  \A r \in Runs :
    /\ inv[r].userInputResult = "empty"
       => EndsFailed(r) /\ "fillUser" \notin IssuedOps(r)
    /\ inv[r].passInputResult = "empty"
       => EndsFailed(r) /\ "fillPass" \notin IssuedOps(r)
    /\ inv[r].buttonLoginResult = "empty"
       => EndsFailed(r) /\ "clickLogin" \notin IssuedOps(r)
    /\ inv[r].buttonFacturaResult = "empty"
       => EndsFailed(r) /\ "clickFactura" \notin IssuedOps(r)

\* a record without facturaId was used for the download and returned
C19_DownloadWithoutFacturaId ==
  /\ inv[1].pc = "returned" /\ inv[1].ret = "nofactura" /\ inv[1].saved
  /\ "clickDownload" \in IssuedOps(1)

\* the lines of one of the two runs that contain its password
LinesWithPassword(i) ==
  {k \in 1..Len(call.lines[i]) : Includes(call.lines[i][k], call.password[i])}

(***************************************************************************)
(* C20: no console line written while a getInvoice command is received,    *)
(* parsed, dispatched and executed contains the password, and two runs     *)
(* that differ only in the password write the same lines.                  *)
(* Fails: both entry points log the text of the message on receipt.        *)
(***************************************************************************)
C20_PasswordNeverLogged ==
  call.fn = "getInvoice" =>
    /\ \A i \in RunsCompared : LinesWithPassword(i) = {}
    /\ call.lines[1] = call.lines[2]

\* what does hold: only the line written on receipt carries the password,
\* and every later line is the same in both runs
C20_OnlyReceiptLineDiffers ==
  call.fn = "getInvoice" =>
    /\ \A i \in RunsCompared : LinesWithPassword(i) \subseteq {1}
    /\ Len(call.lines[1]) = Len(call.lines[2])
    /\ \A k \in 2..Len(call.lines[1]) : call.lines[1][k] = call.lines[2][k]

\* a command run to the end whose passwords differ and whose logs differ
C20_PasswordLogged ==
  /\ call.fn = "getInvoice" /\ call.pc = "done"
  /\ call.password[1] # call.password[2]
  /\ Len(call.lines[1]) = 4
  /\ LinesWithPassword(1) = {1}
  /\ call.lines[1] # call.lines[2]

\* the replies that report a failure to the conversation
FailureTags == {"failed to retrieve invoice", "error processing audio"}

(***************************************************************************)
(* C21: a failure reported to a conversation, whether the pipeline failed  *)
(* in getInvoice or the download, the validation or every backend failed   *)
(* in processAudio, is one message whose text is fixed by the program: it  *)
(* embeds no text of the internal error.                                   *)
(* Fails: the catch block of processAudio puts error.message in the reply. *)
(***************************************************************************)
C21_FailureMessageFixed ==
  \A i \in 1..Len(sent) :
    sent[i].tag \in FailureTags => Len(sent) = 1 /\ sent[i].detail = NoError

\* what does hold: one message for each failure, and a fixed text for getInvoice
C21_OneMessagePerFailure ==
  \A i \in 1..Len(sent) :
    /\ sent[i].tag \in FailureTags => Len(sent) = 1
    /\ sent[i].tag = "failed to retrieve invoice" => sent[i].detail = NoError

\* the reply to a failed transcription carries the text of the error thrown
C21_InternalErrorInReply ==
  /\ Len(sent) = 1 /\ sent[1].tag = "error processing audio"
  /\ sent[1].detail # NoError
  /\ sent[1].detail.prefix = "Transcription failed"

\* handler activation p returns from taskHandlers.getInvoice in this step
GetInvoiceReturns(p) == h[p].pc \in {"gi_agent", "gi_senddoc"} /\ h'[p].pc = "idle"

(***************************************************************************)
(* C22: when the getInvoice handler returns after a pipeline run that      *)
(* saved an invoice PDF, the file is no longer on disk, whether or not     *)
(* sending it succeeded; and the file is not deleted before the send has   *)
(* completed.                                                              *)
(* Fails: the file is deleted only after a successful sendDocument.        *)
(***************************************************************************)
C22_ArtifactGoneOnReturn ==
  [][\A p \in Procs :
       GetInvoiceReturns(p) =>
         /\ disk' \subseteq disk
         /\ h[p].pc = "gi_senddoc" => "F1.pdf" \notin disk'
         /\ \A f \in disk \ disk' :
              h[p].pc = "gi_senddoc" /\ Len(sent') = 2 /\ sent'[1].tag = "document"]_vars

\* what does hold: a PDF leaves the disk only in the step in which its
\* sendDocument has succeeded, and after a successful send it is gone
C22_DeletedOnlyAfterSend ==
  [][\A p \in Procs :
       GetInvoiceReturns(p) =>
         /\ \A f \in disk \ disk' :
              h[p].pc = "gi_senddoc" /\ Len(sent') = 2 /\ sent'[1].tag = "document"
         /\ (h[p].pc = "gi_senddoc" /\ Len(sent') = 2) => "F1.pdf" \notin disk']_vars

\* the send failed, the handler has returned and the PDF is still on disk
C22_ArtifactLeftBehind ==
  /\ Len(sent) = 1 /\ sent[1].tag = "invoice retrieved, file send failed"
  /\ "F1.pdf" \in disk
  /\ \A p \in Procs : h[p].pc = "idle"

\* how many backends are configured for the run, and the failures raised
\* while a backend was being set up
Configured(r) == IF r.openaiKey THEN 3 ELSE 2
SetupErrors == {"groq setup", "openai setup"}

(***************************************************************************)
(* C23: whenever a backend of a chain run has failed, by returning a       *)
(* failure result or by a failure raised while it was being set up, and a  *)
(* later backend is configured, the later backend is invoked; the run      *)
(* ends thrown on a backend failure only when every configured backend     *)
(* has been tried.                                                         *)
(* Fails: a failure raised by the import or the client constructor is      *)
(* outside the backend's try and ends the run at once.                     *)
(***************************************************************************)
C23_FailureFallsThrough ==
  /\ \A i \in 1..Len(tr.log) :
       (~tr.log[i].success /\ i < Configured(tr)) => Len(tr.invoked) > i
  /\ (tr.pc = "thrown" /\ tr.log # <<>> /\ ~tr.log[Len(tr.log)].success)
       => Len(tr.invoked) = Configured(tr)

\* what does hold: the same for the failures a backend returns as a result
C23_ReturnedFailureFallsThrough ==
  /\ \A i \in 1..Len(tr.log) :
       (~tr.log[i].success /\ tr.log[i].error \notin SetupErrors /\ i < Configured(tr))
         => Len(tr.invoked) > i
  /\ (tr.pc = "thrown" /\ tr.log # <<>> /\ ~tr.log[Len(tr.log)].success
        /\ tr.log[Len(tr.log)].error \notin SetupErrors)
       => Len(tr.invoked) = Configured(tr)

\* the Groq client could not be built, OpenAI was configured and never invoked
C23_SetupFailureEndsRun ==
  /\ tr.pc = "thrown" /\ tr.openaiKey
  /\ tr.invoked = <<"local", "groq">>
  /\ tr.error.reason = "groq setup"

(***************************************************************************)
(* C24: when two runs of invoiceAgent overlap, every page operation of a   *)
(* run (navigate, query, fill, click, wait for the download) is performed  *)
(* on the page that run created, never on the page of the other run.       *)
(* Fails: initializeBrowser stores the page in global.page and the run     *)
(* reads global.page back after its await.                                 *)
(***************************************************************************)
C24_OwnPageOnly ==
  \A r \in Runs : \A i \in 1..Len(inv[r].ops) : inv[r].ops[i].page = inv[r].id

\* what does hold: a run works on the page most recently stored in
\* global.page at the moment it entered its try, which some run created
C24_PageFromGlobal ==
  \A r \in Runs : \A i \in 1..Len(inv[r].ops) :
    /\ inv[r].ops[i].page = inv[r].page
    /\ inv[r].ops[i].page \in Runs

\* both runs performed their operations on the page the second run created
C24_SharedPage ==
  /\ inv[1].ops # <<>> /\ inv[2].ops # <<>>
  /\ inv[1].ops[1].page = 2 /\ inv[2].ops[1].page = 2

\* handler activation p starts a transcription in this step
StartsTranscription(p) == h[p].pc = "idle" /\ h'[p].pc = "pa_download"

(***************************************************************************)
(* C25: whichever way two handler activations interleave on audio-bearing  *)
(* messages of one conversation, every transcription that starts finds an  *)
(* armed session of that conversation and has deleted it by the time the   *)
(* step ends, and no two activations start in the same step: one armed     *)
(* session starts at most one transcription.                               *)
(***************************************************************************)
C25_OneStartPerSession ==
  [][\A p \in Procs :
       StartsTranscription(p) =>
         /\ HasSession(h'[p].chat)
         /\ h'[p].chat \notin DOMAIN audioSessions'
         /\ \A q \in Procs \ {p} : h'[q] = h[q]]_vars

\* one activation is transcribing for a conversation whose session is gone,
\* and the other has just answered an audio message of that conversation
\* on the ordinary command path
C25_Witness ==
  \E p \in Procs :
    /\ h[p].pc = "pa_transcribe"
    /\ ~HasSession(h[p].chat)
    /\ \A q \in Procs \ {p} : h[q].pc = "idle"
    /\ Len(sent) = 1 /\ sent[1] = Notice(h[p].chat, "welcome")

\* another activation is still suspended in the handling of a message of c
StillHandling(p, c) == \E q \in Procs \ {p} : h[q].pc # "idle" /\ h[q].chat = c

(***************************************************************************)
(* C26: the messages of one conversation are processed in arrival order:   *)
(* while the handling of a message of the conversation is suspended in a   *)
(* transcription or a pipeline run, no later message of the conversation   *)
(* is handled, so its session reads and writes and its replies wait.       *)
(* Fails: every message starts its own async handler at once.              *)
(***************************************************************************)
C26_ArrivalOrder ==
  [][\A p \in Procs, c \in Chats :
       (TakesMessageOf(p, c) /\ StillHandling(p, c)) =>
         \A m \in MessagesOf[c] : ~HandleMessage(p, m)]_vars

\* a pipeline run of the conversation is still in flight and a later
\* /getUserInfo of the same conversation has armed a session and been answered
C26_Overtaken ==
  \E q \in Procs :
    /\ h[q].pc = "gi_agent"
    /\ HasSession(h[q].chat)
    /\ sent = <<Notice(h[q].chat, "send me an audio")>>

(***************************************************************************)
(* C27: a message of any kind that finds a session of its conversation     *)
(* armed more than 300 s ago deletes that session, sends exactly one       *)
(* expiry notice and goes to no handler: no transcription and no pipeline  *)
(* run starts, no session is armed and the other sessions stay; a message  *)
(* that finds no session, the sweep having removed it, gets no expiry      *)
(* notice and is routed as a message without session is: an audio message  *)
(* gets the welcome reply and starts nothing.                              *)
(***************************************************************************)
C27_ExpiredOnAccess ==
  [][\A p \in ClockProcs, c \in Chats :
       /\ (/\ HasSession(c)
           /\ now - audioSessions[c].startTime > SessionTTL
           /\ TakesMessageOf(p, c))
          => \A m \in MessagesOf[c] :
               HandleMessage(p, m) =>
                 /\ audioSessions' = MapDelete(audioSessions, c)
                 /\ sent' = <<Notice(c, "session expired")>>
                 /\ h' = h /\ inv' = inv /\ disk' = disk
       /\ (~HasSession(c) /\ TakesMessageOf(p, c))
          => /\ (\E i \in 1..Len(sent') : sent'[i].tag = "session expired")
                  => \A m \in MessagesOf[c] : ~HandleMessage(p, m)
             /\ \A m \in AudioOf[c] :
                  HandleMessage(p, m) =>
                    /\ sent' = <<Notice(c, "welcome")>>
                    /\ h' = h /\ audioSessions' = audioSessions]_vars

\* the expiry notice has just been sent for a session the sweep had not yet taken
C27_Witness ==
  \E c \in Chats :
    /\ sent = <<Notice(c, "session expired")>>
    /\ c \notin DOMAIN audioSessions
    /\ now > SessionTTL
    /\ \A p \in Procs : h[p].pc = "idle"

\* after a sweep that emptied the store an audio message got the welcome reply
C27_AfterSweep ==
  \E c \in Chats :
    /\ now > SessionTTL /\ nextSweep > now
    /\ audioSessions = <<>>
    /\ sent = <<Notice(c, "welcome")>>

(***************************************************************************)
(* C28: however the sweep interleaves with the message handlers and with   *)
(* re-arming, a sweep removes only sessions armed more than 300 s before   *)
(* the moment of the sweep, never a younger one, a re-armed one included;  *)
(* every entry it keeps is unchanged, it adds none, it sends no message    *)
(* and it touches no handler activation.                                   *)
(***************************************************************************)
C28_SweepRemovesOnlyExpired ==
  [][nextSweep' # nextSweep =>
       /\ DOMAIN audioSessions' \subseteq DOMAIN audioSessions
       /\ \A c \in DOMAIN audioSessions :
            IF c \in DOMAIN audioSessions'
            THEN audioSessions'[c] = audioSessions[c]
            ELSE now - audioSessions[c].startTime > SessionTTL
       /\ sent' = <<>>
       /\ h' = h /\ disk' = disk /\ inv' = inv /\ now' = now]_vars

\* a sweep is due while one conversation's session is over age and the other
\* conversation's session, armed later, is not
C28_Witness ==
  /\ now >= nextSweep
  /\ \E c, d \in DOMAIN audioSessions :
       /\ now - audioSessions[c].startTime > SessionTTL
       /\ audioSessions[d].startTime > audioSessions[c].startTime
       /\ now - audioSessions[d].startTime <= SessionTTL

(***************************************************************************)
(* C29: when the table elements cannot be gathered the run does not end    *)
(* failed, whether or not a download was requested: it completes with an   *)
(* empty extraction.                                                       *)
(* Fails: with a download requested the download block reads facturaId of  *)
(* the null record and the run ends failed.                                *)
(***************************************************************************)
C29_TableFailureSoft ==
  \A r \in Runs :
    inv[r].facturaTable = "failure" =>
      /\ ~inv[r].failed
      /\ inv[r].pc \in {"closing", "returned"}
      /\ inv[r].ret = "null"

\* what does hold: without a download the run returns null and is not failed
C29_TableFailureSoftWithoutDownload ==
  \A r \in Runs :
    (inv[r].facturaTable = "failure" /\ ~inv[r].dowloadFile) =>
      /\ ~inv[r].failed
      /\ inv[r].pc \in {"closing", "returned"}
      /\ inv[r].ret = "null"

\* a download was requested, the table could not be gathered, the run failed
C29_TableFailureAborts ==
  /\ inv[1].pc = "returned" /\ inv[1].dowloadFile
  /\ inv[1].facturaTable = "failure"
  /\ inv[1].failed /\ inv[1].ret = "undefined"
  /\ IssuedOps(1) \cap {"waitForEvent", "clickDownload", "saveAs"} = {}

DownloadOps == {"waitForEvent", "clickDownload", "saveAs"}
\* the position of the first issue of an operation in a run, 0 when it was not issued
IssuedAt(r, op) ==
  IF op \in IssuedOps(r)
  THEN CHOOSE i \in 1..Len(inv[r].ops) :
         inv[r].ops[i].op = op /\ \A j \in 1..(i - 1) : inv[r].ops[j].op # op
  ELSE 0
DownloadTried(r) == inv[r].download.event # "unset"

(***************************************************************************)
(* C30: the download steps run only in a run for which a download was      *)
(* requested; the PDF is saved only after both the wait for the download   *)
(* event and the click that triggers it have completed; when either of     *)
(* them fails nothing is saved, no record is returned and the run ends     *)
(* failed; and a run that returns a record after a requested download has  *)
(* saved the PDF first.                                                    *)
(***************************************************************************)
C30_DownloadSequence ==
  \A r \in Runs :
    /\ IssuedOps(r) \cap DownloadOps # {} => inv[r].dowloadFile
    /\ "saveAs" \in IssuedOps(r) =>
         /\ inv[r].download = [event |-> "ok", click |-> "ok"]
         /\ 0 < IssuedAt(r, "waitForEvent") /\ IssuedAt(r, "waitForEvent") < IssuedAt(r, "saveAs")
         /\ 0 < IssuedAt(r, "clickDownload") /\ IssuedAt(r, "clickDownload") < IssuedAt(r, "saveAs")
    /\ inv[r].saved => "saveAs" \in IssuedOps(r)
    /\ (DownloadTried(r) /\ inv[r].download # [event |-> "ok", click |-> "ok"]) =>
         /\ ~inv[r].saved /\ "saveAs" \notin IssuedOps(r)
         /\ inv[r].failed /\ inv[r].ret = "undefined"
         /\ inv[r].pc \in {"closing", "returned"}
    /\ (inv[r].dowloadFile /\ inv[r].ret \in {"record", "nofactura"}) => inv[r].saved

\* the click completed, the download event did not: the run failed and saved nothing
C30_Witness ==
  /\ inv[1].pc = "returned" /\ inv[1].failed /\ ~inv[1].saved
  /\ inv[1].download = [event |-> "throw", click |-> "ok"]
  /\ inv[1].ret = "undefined"

\* both completed: the PDF was saved and the record returned
C30_Downloaded ==
  /\ inv[1].pc = "returned" /\ inv[1].saved /\ inv[1].ret = "record"
  /\ inv[1].download = [event |-> "ok", click |-> "ok"]

\* the classifier calls a run has made
Asked(r) == {inv[r].llm[i] : i \in 1..Len(inv[r].llm)}

(***************************************************************************)
(* C31: when the candidates gathered for a resolution step are empty, for  *)
(* example when the input-id query returns an empty list, the classifier   *)
(* is not called for that step and the step counts as a resolution         *)
(* failure: the run ends failed.                                           *)
(* Fails: the analyzer is asked for the username input whatever            *)
(* getInputIds returned.                                                   *)
(***************************************************************************)
C31_NoCandidatesNoClassifierCall ==
  \A r \in Runs :
    inv[r].inputIds = "empty" =>
      /\ Asked(r) \cap {"username", "password"} = {}
      /\ EndsFailed(r)

\* what does hold: a gathering that reports failure is followed by no
\* classifier call for its step
C31_GatherFailureNoClassifierCall ==
  \A r \in Runs :
    /\ inv[r].buttonResult = "failure" => "login" \notin Asked(r)
    /\ inv[r].facturaResult = "failure" => "factura" \notin Asked(r)
    /\ inv[r].facturaTable = "failure" => "table" \notin Asked(r)

\* no input id was found, both classifier calls were made with the empty
\* list and the run went on to fill both fields
C31_ClassifierAskedWithoutCandidates ==
  /\ inv[1].inputIds = "empty"
  /\ {"username", "password"} \subseteq Asked(1)
  /\ {"fillUser", "fillPass"} \subseteq IssuedOps(1)

\* activation p leaves processAudio in this step
ProcessAudioEnds(p) == h[p].pc \in {"pa_download", "pa_transcribe"} /\ h'[p].pc = "idle"

(***************************************************************************)
(* C32: a session armed by /getUserInfo while an earlier transcription of  *)
(* the same conversation is in flight survives the end of that             *)
(* transcription, its failure included: the end of a transcription         *)
(* removes no session.                                                     *)
(* Fails: the catch block of processAudio deletes whatever session the     *)
(* conversation has at that moment.                                        *)
(***************************************************************************)
C32_LaterSessionSurvives ==
  [][\A p \in Procs : ProcessAudioEnds(p) => audioSessions' = audioSessions]_vars

\* what does hold: a transcription that ends without error removes no
\* session, and one that fails removes at most the session of its own
\* conversation
C32_FailureRemovesOwnConversationOnly ==
  [][\A p \in Procs :
       ProcessAudioEnds(p) =>
         IF Len(sent') = 1 /\ sent'[1].tag = "error processing audio"
         THEN audioSessions' = MapDelete(audioSessions, h[p].chat)
         ELSE audioSessions' = audioSessions]_vars

\* a transcription is in flight and its conversation has been armed again
C32_ArmedDuringTranscription ==
  \E p \in Procs :
    /\ h[p].pc = "pa_transcribe"
    /\ HasSession(h[p].chat)
    /\ sent = <<Notice(h[p].chat, "send me an audio")>>

(***************************************************************************)
(* C33: the login control is clicked only after the username fill and the  *)
(* password fill have both succeeded; a fill that reports the error status *)
(* stops the run before the login is submitted: the run ends failed and    *)
(* gathers no buttons.                                                     *)
(* Fails: the status insertInputValue returns is logged and not tested.    *)
(***************************************************************************)
C33_LoginAfterSuccessfulFills ==
  \A r \in Runs :
    /\ "clickLogin" \in IssuedOps(r) => inv[r].fills = <<"success", "success">>
    /\ (\E i \in 1..Len(inv[r].fills) : inv[r].fills[i] = "error") =>
         /\ IssuedOps(r) \cap {"getButtonElements", "clickLogin"} = {}
         /\ inv[r].pc \in {"closing", "returned"} /\ inv[r].failed

\* what does hold: the login is clicked only after both fills were issued
\* and had returned, in the order username, password
C33_LoginAfterBothFillsReturned ==
  \A r \in Runs :
    "clickLogin" \in IssuedOps(r) =>
      /\ Len(inv[r].fills) = 2
      /\ 0 < IssuedAt(r, "fillUser")
      /\ IssuedAt(r, "fillUser") < IssuedAt(r, "fillPass")
      /\ IssuedAt(r, "fillPass") < IssuedAt(r, "clickLogin")

\* the password fill reported an error, the login was clicked all the same
\* and the run returned a record
C33_LoginAfterFailedFill ==
  /\ inv[1].fills = <<"success", "error">>
  /\ "clickLogin" \in IssuedOps(1)
  /\ inv[1].pc = "returned" /\ inv[1].ret = "record"

GetUserInfoOf == [c \in Chats |-> {m \in MessagesOf[c] : m.text = <<"/", "getUserInfo">>}]

(***************************************************************************)
(* C34: a /getUserInfo command that finds an unexpired session of its      *)
(* conversation cancels that session and arms none: afterwards the         *)
(* conversation has no session, one cancellation notice was sent and       *)
(* nothing else changed; and no step ever writes the session of a          *)
(* conversation that has one in the store, so the getUserInfo handler      *)
(* never runs over an existing session and no start time is ever renewed.  *)
(***************************************************************************)
C34_GetUserInfoCancels ==
  [][\A c \in Chats :
       /\ \A p \in ClockProcs :
            (/\ HasSession(c)
             /\ now - audioSessions[c].startTime <= SessionTTL
             /\ TakesMessageOf(p, c))
            => \A m \in GetUserInfoOf[c] :
                 HandleMessage(p, m) =>
                   /\ audioSessions' = MapDelete(audioSessions, c)
                   /\ sent' = <<Notice(c, "cancelled: text")>>
                   /\ h' = h /\ inv' = inv
       /\ (c \in DOMAIN audioSessions /\ c \in DOMAIN audioSessions')
            => audioSessions'[c] = audioSessions[c]]_vars

\* some minutes after arming, a text of the second conversation cancelled its
\* session while the session of the first conversation stayed
C34_Witness ==
  /\ now > 0
  /\ sent = <<Notice("c2", "cancelled: text")>>
  /\ "c2" \notin DOMAIN audioSessions
  /\ HasSession("c1")
  /\ h[1].pc = "idle"

(***************************************************************************)
(* C35: once the browser has been launched invoiceAgent does not raise to  *)
(* its caller: a failure after the launch makes it return undefined, and   *)
(* it returns a record only from a run that did not fail.                  *)
(* Fails: newContext and newPage are awaited after the launch and before   *)
(* the try, so their failure is raised to the caller.                      *)
(***************************************************************************)
C35_NoRaiseAfterLaunch ==
  \A r \in Runs :
    /\ (inv[r].browser # "none") => inv[r].pc # "rejected"
    /\ inv[r].failed => inv[r].ret = "undefined"
    /\ inv[r].ret \in {"record", "nofactura"} => ~inv[r].failed

\* what does hold: a run that entered the try never raises, returns undefined
\* when it failed and a record only when it did not
C35_NoRaiseInsideTry ==
  \A r \in Runs :
    /\ (inv[r].page # 0) => inv[r].pc # "rejected"
    /\ inv[r].failed => inv[r].ret = "undefined"
    /\ inv[r].ret \in {"record", "nofactura"} => ~inv[r].failed

\* the browser was launched, the context could not be created and the call
\* was rejected
C35_RaisedAfterLaunch ==
  /\ inv[1].pc = "rejected" /\ inv[1].browser = "open"
  /\ inv[1].ops = <<>>

(***************************************************************************)
(* C36: every armed session is eventually removed from the store, also     *)
(* when its conversation sends nothing more, as long as the sweep keeps    *)
(* firing and time keeps advancing.                                        *)
(***************************************************************************)
C36_SessionEventuallyRemoved ==
  \A c \in Chats : (c \in DOMAIN audioSessions) ~> (c \notin DOMAIN audioSessions)

\* a session is over age, nothing is in flight and the sweep is due
C36_Witness ==
  \E c \in DOMAIN audioSessions :
    /\ now - audioSessions[c].startTime > SessionTTL
    /\ now >= nextSweep
    /\ \A p \in Procs : h[p].pc = "idle"
    /\ sent = <<>>

(***************************************************************************)
(* C37: on every exit of processAudio that follows a completed download    *)
(* the downloaded audio file has been deleted from disk, the exits on      *)
(* which transcriptionAgent failed included.                               *)
(* Fails: the file is deleted only after transcriptionAgent has returned.  *)
(***************************************************************************)
C37_AudioFileDeleted ==
  [][\A p \in Procs :
       (h[p].pc = "pa_transcribe" /\ h'[p].pc = "idle") => "audio" \notin disk']_vars

\* what does hold: the file is deleted when the transcription is delivered,
\* and a failed transcription leaves the disk as it was
C37_DeletedOnSuccessOnly ==
  [][\A p \in Procs :
       (h[p].pc = "pa_transcribe" /\ h'[p].pc = "idle") =>
         IF sent' = <<Notice(h[p].chat, "transcription complete")>>
         THEN "audio" \notin disk'
         ELSE disk' = disk]_vars

\* the transcription failed, processAudio has ended and the file is still there
C37_AudioFileLeftBehind ==
  /\ Len(sent) = 1 /\ sent[1].tag = "error processing audio"
  /\ sent[1].detail.prefix \in {"Transcription failed", "File validation failed"}
  /\ "audio" \in disk
  /\ \A p \in Procs : h[p].pc = "idle"

\* the step belongs to conversation c: an activation suspended for c moves,
\* an activation suspends for c, or what is sent goes to c
ActsFor(c) ==
  \/ \E p \in Procs : h[p].pc # "idle" /\ h[p].chat = c /\ h'[p] # h[p]
  \/ \E p \in Procs : h[p].pc = "idle" /\ h'[p].pc # "idle" /\ h'[p].chat = c
  \/ sent' # <<>> /\ sent'[1].chat = c

SessionTouched(d) ==
  \/ (d \in DOMAIN audioSessions) # (d \in DOMAIN audioSessions')
  \/ d \in DOMAIN audioSessions /\ d \in DOMAIN audioSessions'
       /\ audioSessions'[d] # audioSessions[d]

(***************************************************************************)
(* C38: a step of the server taken for one conversation, whether it        *)
(* handles a message, runs a task handler or ends a transcription,         *)
(* creates, changes or deletes no session of another conversation: a       *)
(* session that is touched belongs to the conversation of the step, and    *)
(* every step belongs to one conversation only. The store holds at most    *)
(* one session for each conversation.                                      *)
(***************************************************************************)
C38_OtherSessionsUntouched ==
  [][/\ \A d \in Chats : SessionTouched(d) => ActsFor(d)
     /\ \A c, d \in Chats : (ActsFor(c) /\ ActsFor(d)) => c = d
     /\ DOMAIN audioSessions' \subseteq Chats]_vars

\* a transcription has just started for the second conversation, its session
\* is consumed and the session of the first conversation is in the store
C38_Witness ==
  \E p \in Procs :
    /\ h[p].pc = "pa_download" /\ h[p].chat = "c2"
    /\ sent = <<Notice("c2", "processing")>>
    /\ "c2" \notin DOMAIN audioSessions
    /\ HasSession("c1")

====
